---- MODULE Spec2Model ----
(***************************************************************************)
(* A model of the OpenMP test-pattern extractor (Pattern_Extration):       *)
(* FileProcessor.process_test_file and the helpers it calls,               *)
(* ASTExtractor.extract_patterns, TestPattern.to_dict / from_dict,         *)
(* PatternDatabase.store_pattern and OpenMPPatternAnalyzer.analyze_all_tests. *)
(*                                                                         *)
(* Python values are encoded as follows.  A str is a TLA+ string; a list   *)
(* is a sequence; a set is a set; a dataclass instance is a record with a  *)
(* field cls naming its class; a dict is a record without cls; an          *)
(* Optional value is a sequence of length at most one (None is <<>>).      *)
(***************************************************************************)
EXTENDS Integers, Sequences, FiniteSets, TLC

VARIABLES
    file,             \* FileSpec: the file process_test_file is called on
    parser,           \* FileSpec: what the external parser does on that file
    hash_seed,        \* the salt of the running process's string hashes
    now,              \* the clock datetime.now() reads
    recs,             \* FileSpec: the results of the process_test_file calls made
    restored,         \* FileSpec: a record of recs serialised and deserialised
    test_files,       \* Spec: the list find_openmp_test_files returned
    idx,              \* Spec: number of loop iterations of analyze_all_tests done
    successful_count, \* Spec: analyze_all_tests' local
    failed_count,     \* Spec: analyze_all_tests' local
    pc,               \* Spec: position of analyze_all_tests
    returned,         \* Spec: its return value, once it has returned
    trace,            \* Spec: one entry per loop iteration, in execution order
    db,               \* the sqlite database
    cat_in,           \* CategorySpec: the arguments of _categorize_test
    cat_out,          \* CategorySpec: its results
    score_in,         \* ScoreSpec: the arguments of _calculate_complexity_score
    score_out,        \* ScoreSpec: its result
    call_in,          \* the arguments of a call of one of the other methods
    call_out          \* what that call returned, once it has

vars == <<file, parser, hash_seed, now, recs, restored,
          test_files, idx, successful_count, failed_count, pc, returned, trace, db,
          cat_in, cat_out, score_in, score_out, call_in, call_out>>

None == <<>>
Some(v) == <<v>>

(***************************************************************************)
(* Strings.                                                                *)
(***************************************************************************)
Ch(s, i) == IF 1 <= i /\ i <= Len(s) THEN SubSeq(s, i, i) ELSE ""

UpperCase == <<"A","B","C","D","E","F","G","H","I","J","K","L","M",
               "N","O","P","Q","R","S","T","U","V","W","X","Y","Z">>
LowerCase == <<"a","b","c","d","e","f","g","h","i","j","k","l","m",
               "n","o","p","q","r","s","t","u","v","w","x","y","z">>
Digits == {"0","1","2","3","4","5","6","7","8","9"}
Letters == {UpperCase[i] : i \in 1..26} \cup {LowerCase[i] : i \in 1..26}
WhiteSpace == {" ", "\t", "\n", "\r"}

LowerChar(c) ==
    IF \E i \in 1..26 : UpperCase[i] = c
    THEN LowerCase[CHOOSE i \in 1..26 : UpperCase[i] = c]
    ELSE c

\* s.lower(), each character mapped on its own (the text is halved to keep
\* the evaluation shallow)
RECURSIVE Lower(_)
Lower(s) ==
    IF Len(s) <= 1 THEN LowerChar(s)
    ELSE Lower(SubSeq(s, 1, Len(s) \div 2)) \o Lower(SubSeq(s, Len(s) \div 2 + 1, Len(s)))

\* k in s
Contains(k, s) == \E i \in 1..(Len(s) - Len(k) + 1) : SubSeq(s, i, i + Len(k) - 1) = k

\* s[i:].startswith(k), i being 1-based
StartsAt(s, i, k) == i >= 1 /\ i + Len(k) - 1 <= Len(s) /\ SubSeq(s, i, i + Len(k) - 1) = k

Min(S) == CHOOSE m \in S : \A n \in S : m <= n
Max(S) == CHOOSE m \in S : \A n \in S : m >= n

\* s.find(k): 0-based index of the first occurrence, -1 when there is none
Find(k, s) ==
    LET hits == {i \in 1..(Len(s) - Len(k) + 1) : SubSeq(s, i, i + Len(k) - 1) = k}
    IN IF hits = {} THEN -1 ELSE Min(hits) - 1

\* first position >= i holding a character outside cs (Len(s)+1 when none)
SkipWhile(s, i, cs) ==
    LET stop == {j \in i..Len(s) : Ch(s, j) \notin cs}
    IN IF stop = {} THEN Max({i, Len(s) + 1}) ELSE Min(stop)

\* first position >= i holding a character of cs (Len(s)+1 when none)
SkipUntil(s, i, cs) ==
    LET stop == {j \in i..Len(s) : Ch(s, j) \in cs}
    IN IF stop = {} THEN Max({i, Len(s) + 1}) ELSE Min(stop)

\* s.strip()
Strip(s) ==
    LET body == {j \in 1..Len(s) : Ch(s, j) \notin WhiteSpace}
    IN IF body = {} THEN "" ELSE SubSeq(s, Min(body), Max(body))

\* s.split(): the maximal runs of non-whitespace characters
RECURSIVE SplitFrom(_, _)
SplitFrom(s, i) ==
    LET b == SkipWhile(s, i, WhiteSpace)
        e == SkipUntil(s, b, WhiteSpace)
    IN IF b > Len(s) THEN <<>> ELSE <<SubSeq(s, b, e - 1)>> \o SplitFrom(s, e)
Split(s) == SplitFrom(s, 1)

\* s.splitlines(): lines end at \n, \r or \r\n; a final terminator opens no line
RECURSIVE SplitLinesFrom(_, _)
SplitLinesFrom(s, i) ==
    LET e == SkipUntil(s, i, {"\n", "\r"})
        next == IF StartsAt(s, e, "\r\n") THEN e + 2 ELSE e + 1
    IN IF i > Len(s) THEN <<>> ELSE <<SubSeq(s, i, e - 1)>> \o SplitLinesFrom(s, next)
SplitLines(s) == SplitLinesFrom(s, 1)

\* ' '.join(xs)
RECURSIVE Join(_)
Join(xs) ==
    IF xs = <<>> THEN ""
    ELSE IF Len(xs) = 1 THEN xs[1]
    ELSE xs[1] \o " " \o Join(Tail(xs))

Range(xs) == {xs[i] : i \in 1..Len(xs)}

MapSeq(xs, F(_)) == [i \in 1..Len(xs) |-> F(xs[i])]

RECURSIVE Concat(_)
Concat(xss) == IF xss = <<>> THEN <<>> ELSE Head(xss) \o Concat(Tail(xss))

\* of the matches found, each a record with its position at, the leftmost
Leftmost(found) == CHOOSE m \in found : \A n \in found : m.at <= n.at

(***************************************************************************)
(* list(S) of a set S of strings enumerates it in the order of the hashes  *)
(* of its members, which the interpreter salts anew in every process: the  *)
(* order is a function of the set and of the salt.  Two salts are told     *)
(* apart, one listing every set in the reverse of the other's order.       *)
(***************************************************************************)
HashSeeds == {"salt a", "salt b"}

Perms(S) == {p \in [1..Cardinality(S) -> S] : Range(p) = S}

Reverse(xs) == [i \in 1..Len(xs) |-> xs[Len(xs) + 1 - i]]

ListOfSet(S, seed) ==
    LET some == CHOOSE p \in Perms(S) : TRUE
    IN IF seed = "salt a" THEN some ELSE Reverse(some)

(***************************************************************************)
(* models.py: the enums and the dataclasses.                               *)
(***************************************************************************)
CompilerStageNames == {"PARSE", "SEMA", "CODEGEN", "AST_PRINT", "UNKNOWN"}
CompilerStage == {[cls |-> "CompilerStage", name |-> n] : n \in CompilerStageNames}
Stage(n) == [cls |-> "CompilerStage", name |-> n]
StageValue(m) ==
    CASE m.name = "PARSE" -> "parse"
      [] m.name = "SEMA" -> "sema"
      [] m.name = "CODEGEN" -> "codegen"
      [] m.name = "AST_PRINT" -> "ast_print"
      [] m.name = "UNKNOWN" -> "unknown"

TestCategoryNames ==
    {"PARALLEL", "WORKSHARING", "TARGET", "SYNCHRONIZATION", "SIMD", "TASK", "GENERAL"}
TestCategory == {[cls |-> "TestCategory", name |-> n] : n \in TestCategoryNames}
Category(n) == [cls |-> "TestCategory", name |-> n]
CategoryValue(m) ==
    CASE m.name = "PARALLEL" -> "parallel"
      [] m.name = "WORKSHARING" -> "worksharing"
      [] m.name = "TARGET" -> "target"
      [] m.name = "SYNCHRONIZATION" -> "synchronization"
      [] m.name = "SIMD" -> "simd"
      [] m.name = "TASK" -> "task"
      [] m.name = "GENERAL" -> "general"

OpenMPDirective(name, clauses, line_number, column_number, full_text) ==
    [cls |-> "OpenMPDirective", name |-> name, clauses |-> clauses,
     line_number |-> line_number, column_number |-> column_number,
     full_text |-> full_text]

ASTNode(node_type, spelling, location, children_count, has_openmp) ==
    [cls |-> "ASTNode", node_type |-> node_type, spelling |-> spelling,
     location |-> location, children_count |-> children_count,
     has_openmp |-> has_openmp]

ParseError(error_type, message, line_number, column_number, severity) ==
    [cls |-> "ParseError", error_type |-> error_type, message |-> message,
     line_number |-> line_number, column_number |-> column_number,
     severity |-> severity]

ExpectedErrorPattern(pattern, error_category, regex_pattern, line_number) ==
    [cls |-> "ExpectedErrorPattern", pattern |-> pattern,
     error_category |-> error_category, regex_pattern |-> regex_pattern,
     line_number |-> line_number]

NegativeTestCharacteristics(is_negative_test, error_testing_strategy, expected_vs_actual_errors, error_coverage_areas, error_trigger_count) ==
    [cls |-> "NegativeTestCharacteristics", is_negative_test |-> is_negative_test,
     error_testing_strategy |-> error_testing_strategy,
     expected_vs_actual_errors |-> expected_vs_actual_errors,
     error_coverage_areas |-> error_coverage_areas,
     error_trigger_count |-> error_trigger_count]

(***************************************************************************)
(* file_processor.py: the regular-expression passes over the text.         *)
(***************************************************************************)
\* One match of  //\s*KEY:\s*(.+)  (free = FALSE) or  //\s*KEY[^:]*:\s*(.+)
\* (free = TRUE) starting at position i of s.  \s and [^:] run across line
\* ends, . does not; when only white space follows the colon, \s* gives back
\* its last character that is not a line feed and (.+) takes it.
AnnotationMatch(s, i, key, free) ==
    LET k == SkipWhile(s, i + 2, WhiteSpace)
        p == k + Len(key)
        c == IF free THEN SkipUntil(s, p, {":"}) ELSE p
        m == SkipWhile(s, c + 1, WhiteSpace)
        back == {j \in (c + 1)..Len(s) : Ch(s, j) # "\n"}
        start == IF m <= Len(s) \/ back = {} THEN m ELSE Max(back)
    IN [ok |-> StartsAt(s, i, "//") /\ StartsAt(s, k, key) /\ StartsAt(s, c, ":")
                /\ start <= Len(s),
        at |-> i,
        start |-> start,
        stop |-> SkipUntil(s, start, {"\n"}) - 1]

\* re.findall of such a pattern from position i on, each capture stripped:
\* the leftmost of the matches found there, then those after its end
RECURSIVE FindAllAnnotations(_, _, _, _)
AnnotationsOf(s, key, free, found) ==
    IF found = {} THEN <<>>
    ELSE <<Strip(SubSeq(s, Leftmost(found).start, Leftmost(found).stop))>>
         \o FindAllAnnotations(s, Leftmost(found).stop + 1, key, free)

FindAllAnnotations(s, i, key, free) ==
    AnnotationsOf(s, key, free,
                  {m \in {AnnotationMatch(s, j, key, free) :
                              j \in {j \in i..Len(s) : StartsAt(s, j, "//")}} : m.ok})

ExtractRunCommands(content) == FindAllAnnotations(content, 1, "RUN", FALSE)
ExtractCheckPatterns(content) == FindAllAnnotations(content, 1, "CHECK", TRUE)
ExtractExpectedErrors(content) == FindAllAnnotations(content, 1, "expected-error", TRUE)
ExtractExpectedWarnings(content) == FindAllAnnotations(content, 1, "expected-warning", TRUE)

\* re.findall(r'(-[a-zA-Z0-9-]+)', cmd)
FlagChars == Letters \cup Digits \cup {"-"}
RECURSIVE FindAllFlags(_, _)
FindAllFlags(cmd, i) ==
    LET cand == {j \in i..(Len(cmd) - 1) : Ch(cmd, j) = "-" /\ Ch(cmd, j + 1) \in FlagChars}
        b == Min(cand)
        e == SkipWhile(cmd, b + 1, FlagChars)
    IN IF cand = {} THEN <<>>
       ELSE <<SubSeq(cmd, b, e - 1)>> \o FindAllFlags(cmd, e)

\* the set _extract_compiler_flags builds, before list() orders it
CompilerFlagSet(run_commands) ==
    UNION {Range(FindAllFlags(run_commands[i], 1)) : i \in 1..Len(run_commands)}

\* _determine_compiler_stage with the CODEGEN branch moved before the SEMA branch
DetermineCompilerStageCodegenFirst(run_commands, content) ==
    LET run_text == Lower(Join(run_commands))
    IN IF Contains("-emit-llvm", run_text) \/ Contains("filecheck", run_text)
       THEN Stage("CODEGEN")
       ELSE IF Contains("-fsyntax-only", run_text) \/ Contains("-verify", run_text)
       THEN Stage("SEMA")
       ELSE IF Contains("-ast-print", run_text) \/ Contains("-ast-dump", run_text)
       THEN Stage("AST_PRINT")
       ELSE IF \E i \in 1..Len(run_commands) : Contains("parse", Lower(run_commands[i]))
       THEN Stage("PARSE")
       ELSE Stage("UNKNOWN")

DetermineCompilerStage(run_commands, content) ==
    LET run_text == Lower(Join(run_commands))
    IN IF Contains("-fsyntax-only", run_text) \/ Contains("-verify", run_text)
       THEN Stage("SEMA")
       ELSE IF Contains("-ast-print", run_text) \/ Contains("-ast-dump", run_text)
       THEN Stage("AST_PRINT")
       ELSE IF Contains("-emit-llvm", run_text) \/ Contains("filecheck", run_text)
       THEN Stage("CODEGEN")
       ELSE IF \E i \in 1..Len(run_commands) : Contains("parse", Lower(run_commands[i]))
       THEN Stage("PARSE")
       ELSE Stage("UNKNOWN")

\* re.match(r'\s*#pragma\s+omp\s+(.+)', line): the text of group 1, if it matches
PragmaMatch(line) ==
    LET a == SkipWhile(line, 1, WhiteSpace)
        b == SkipWhile(line, a + 7, WhiteSpace)
        d == b + 3
        e == SkipWhile(line, d, WhiteSpace)
    IN IF StartsAt(line, a, "#pragma") /\ b > a + 7 /\ StartsAt(line, b, "omp")
          /\ (IF e <= Len(line) THEN e > d ELSE e > d + 1)
       THEN Some(IF e <= Len(line) THEN SubSeq(line, e, Len(line))
                 ELSE SubSeq(line, Len(line), Len(line)))
       ELSE None

RECURSIVE ExtractDirectivesFrom(_, _)
ExtractDirectivesFrom(lines, line_num) ==
    IF line_num > Len(lines) THEN <<>>
    ELSE LET line == lines[line_num]
             pragma_match == PragmaMatch(line)
             parts == Split(Strip(pragma_match[1]))
         IN (IF pragma_match = None THEN <<>>
             ELSE <<OpenMPDirective(IF parts # <<>> THEN parts[1] ELSE "",
                                    IF Len(parts) > 1 THEN Tail(parts) ELSE <<>>,
                                    line_num,
                                    Find("#pragma", line),
                                    Strip(line))>>)
            \o ExtractDirectivesFrom(lines, line_num + 1)

\* _extract_openmp_directives counting the lines from 0, as enumerate(lines) does
ExtractOpenmpDirectivesFromZero(content) ==
    MapSeq(ExtractDirectivesFrom(SplitLines(content), 1),
           LAMBDA d : [d EXCEPT !.line_number = @ - 1])

\* _extract_openmp_directives with clauses = parts, the name among them
ExtractOpenmpDirectivesAllParts(content) ==
    MapSeq(ExtractDirectivesFrom(SplitLines(content), 1),
           LAMBDA d : [d EXCEPT !.clauses = IF d.name = "" THEN @ ELSE <<d.name>> \o @])

ExtractOpenmpDirectives(content) == ExtractDirectivesFrom(SplitLines(content), 1)

\* re.search(r'-fopenmp-version=(\d+)', cmd): group 1, if it matches
VersionFlagMatch(cmd) ==
    LET key == "-fopenmp-version="
        cand == {j \in 1..Len(cmd) : StartsAt(cmd, j, key)
                                     /\ Ch(cmd, j + Len(key)) \in Digits}
        b == Min(cand) + Len(key)
    IN IF cand = {} THEN None
       ELSE Some(SubSeq(cmd, b, SkipWhile(cmd, b, Digits) - 1))

\* re.search(r'OpenMP\s+(\d+\.\d+)', content, re.IGNORECASE): group 1, if it matches
VersionCommentAt(content, j) ==
    LET a == j + 6
        b == SkipWhile(content, a, WhiteSpace)
        c == SkipWhile(content, b, Digits)
        d == SkipWhile(content, c + 1, Digits)
    IN [ok |-> j + 5 <= Len(content) /\ Lower(SubSeq(content, j, j + 5)) = "openmp"
                /\ b > a /\ c > b /\ StartsAt(content, c, ".") /\ d > c + 1,
        at |-> j, b |-> b, d |-> d]

VersionOf(content, found) ==
    IF found = {} THEN None
    ELSE Some(SubSeq(content, Leftmost(found).b, Leftmost(found).d - 1))

VersionCommentMatch(content) ==
    VersionOf(content,
              {m \in {VersionCommentAt(content, j) :
                          j \in {j \in 1..Len(content) :
                                    LowerChar(Ch(content, j)) = "o"}} : m.ok})

ExtractOpenmpVersion(content, run_commands) ==
    LET hits == {i \in 1..Len(run_commands) : VersionFlagMatch(run_commands[i]) # None}
    IN IF hits # {} THEN VersionFlagMatch(run_commands[Min(hits)])
       ELSE VersionCommentMatch(content)

IrKeywords == {"call", "invoke", "alloca", "load", "store", "br", "ret",
               "define", "declare", "getelementptr", "bitcast", "icmp"}

IsIrPattern(pattern) == \E keyword \in IrKeywords : Contains(keyword, Lower(pattern))

ExtractIrPatterns(check_patterns) == SelectSeq(check_patterns, IsIrPattern)

\* re.search(r'@(__kmpc_[a-zA-Z_]+|omp_[a-zA-Z_]+)', pattern): group 1, if it matches
IdentChars == Letters \cup {"_"}
RuntimePrefixAt(pattern, j) ==
    IF StartsAt(pattern, j, "@__kmpc_") /\ Ch(pattern, j + 8) \in IdentChars THEN 8
    ELSE IF StartsAt(pattern, j, "@omp_") /\ Ch(pattern, j + 5) \in IdentChars THEN 5
    ELSE 0

RuntimeMatch(pattern) ==
    LET cand == {j \in 1..Len(pattern) : RuntimePrefixAt(pattern, j) > 0}
        b == Min(cand)
    IN IF cand = {} THEN None
       ELSE Some(SubSeq(pattern, b + 1,
                        SkipWhile(pattern, b + RuntimePrefixAt(pattern, b), IdentChars) - 1))

\* the set _extract_runtime_calls builds, before list() orders it
RuntimeCallSet(check_patterns) ==
    {RuntimeMatch(check_patterns[i])[1] :
        i \in {j \in 1..Len(check_patterns) : RuntimeMatch(check_patterns[j]) # None}}

(***************************************************************************)
(* file_processor.py: _categorize_test, _is_negative_test_case and         *)
(* _calculate_complexity_score.                                            *)
(***************************************************************************)
DirectiveNames(directives) == [i \in 1..Len(directives) |-> Lower(directives[i].name)]

AnyContains(keyword, names) == \E i \in 1..Len(names) : Contains(keyword, names[i])
AnyIn(names, keywords) == \E i \in 1..Len(names) : names[i] \in keywords

\* The keywords of each category, and the condition that looks for them in all
\* three of the file name, the directive names and the text.
CategoryKeywords ==
    [PARALLEL |-> {"parallel"},
     WORKSHARING |-> {"for", "sections", "single"},
     TARGET |-> {"target"},
     SYNCHRONIZATION |-> {"atomic", "critical", "barrier"},
     SIMD |-> {"simd"},
     TASK |-> {"task"}]

ThreeSignalCondition(c, filename, directives, content) ==
    \E keyword \in CategoryKeywords[c] :
        \/ Contains(keyword, Lower(filename))
        \/ AnyContains(keyword, DirectiveNames(directives))
        \/ Contains(keyword, Lower(content))

\* the condition of each branch of _categorize_test's if/elif chain
CategoryCondition(c, filename, directives, content) ==
    LET filename_lower == Lower(filename)
        content_lower == Lower(content)
        directive_names == DirectiveNames(directives)
    IN CASE c = "PARALLEL" ->
                \/ Contains("parallel", filename_lower)
                \/ AnyContains("parallel", directive_names)
                \/ Contains("parallel", content_lower)
         [] c = "WORKSHARING" ->
                \/ Contains("for", filename_lower)
                \/ Contains("sections", filename_lower)
                \/ AnyIn(directive_names, {"for", "sections", "single"})
         [] c = "TARGET" ->
                \/ Contains("target", filename_lower)
                \/ AnyContains("target", directive_names)
         [] c = "SYNCHRONIZATION" ->
                \/ Contains("atomic", filename_lower)
                \/ Contains("critical", filename_lower)
                \/ AnyIn(directive_names, {"atomic", "critical", "barrier"})
         [] c = "SIMD" ->
                \/ Contains("simd", filename_lower)
                \/ AnyContains("simd", directive_names)
         [] c = "TASK" ->
                \/ Contains("task", filename_lower)
                \/ AnyContains("task", directive_names)

\* _categorize_test with the TARGET branch moved before the WORKSHARING branch
CategorizeTestTargetFirst(filename, directives, content) ==
    IF CategoryCondition("PARALLEL", filename, directives, content)
    THEN Category("PARALLEL")
    ELSE IF CategoryCondition("TARGET", filename, directives, content)
    THEN Category("TARGET")
    ELSE IF CategoryCondition("WORKSHARING", filename, directives, content)
    THEN Category("WORKSHARING")
    ELSE IF CategoryCondition("SYNCHRONIZATION", filename, directives, content)
    THEN Category("SYNCHRONIZATION")
    ELSE IF CategoryCondition("SIMD", filename, directives, content)
    THEN Category("SIMD")
    ELSE IF CategoryCondition("TASK", filename, directives, content)
    THEN Category("TASK")
    ELSE Category("GENERAL")

\* _categorize_test without its final else: the function falls off its end
\* and returns None
CategorizeTestNoElse(filename, directives, content) ==
    IF CategoryCondition("PARALLEL", filename, directives, content)
    THEN Category("PARALLEL")
    ELSE IF CategoryCondition("WORKSHARING", filename, directives, content)
    THEN Category("WORKSHARING")
    ELSE IF CategoryCondition("TARGET", filename, directives, content)
    THEN Category("TARGET")
    ELSE IF CategoryCondition("SYNCHRONIZATION", filename, directives, content)
    THEN Category("SYNCHRONIZATION")
    ELSE IF CategoryCondition("SIMD", filename, directives, content)
    THEN Category("SIMD")
    ELSE IF CategoryCondition("TASK", filename, directives, content)
    THEN Category("TASK")
    ELSE None

CategorizeTest(filename, directives, content) ==
    IF CategoryCondition("PARALLEL", filename, directives, content)
    THEN Category("PARALLEL")
    ELSE IF CategoryCondition("WORKSHARING", filename, directives, content)
    THEN Category("WORKSHARING")
    ELSE IF CategoryCondition("TARGET", filename, directives, content)
    THEN Category("TARGET")
    ELSE IF CategoryCondition("SYNCHRONIZATION", filename, directives, content)
    THEN Category("SYNCHRONIZATION")
    ELSE IF CategoryCondition("SIMD", filename, directives, content)
    THEN Category("SIMD")
    ELSE IF CategoryCondition("TASK", filename, directives, content)
    THEN Category("TASK")
    ELSE Category("GENERAL")

NegativeIndicators == {"messages", "error", "warn", "diag", "negative",
                       "invalid", "bad", "fail", "wrong"}

\* _is_negative_test_case without its check of the text
IsNegativeTestCaseByName(file_name, content) ==
    LET filename == Lower(file_name)
    IN \E indicator \in NegativeIndicators : Contains(indicator, filename)

IsNegativeTestCase(file_name, content) ==
    LET filename == Lower(file_name)
    IN IF \E indicator \in NegativeIndicators : Contains(indicator, filename) THEN TRUE
       ELSE IF Contains("expected-error", content) \/ Contains("expected-warning", content)
       THEN TRUE
       ELSE FALSE

RECURSIVE SumClauses(_)
SumClauses(directives) ==
    IF directives = <<>> THEN 0
    ELSE Len(Head(directives).clauses) + SumClauses(Tail(directives))

\* dict.get(key, default) on a dict that is a record
Get(d, key, default) == IF key \in DOMAIN d THEN d[key] ELSE default

\* _calculate_complexity_score returning score instead of min(score, 10)
CalculateComplexityScoreUncapped(directives, check_patterns, expected_errors, ast_patterns, error_patterns) ==
    Len(directives) * 2
    + SumClauses(directives)
    + Len(check_patterns)
    + Len(expected_errors) * 2
    + (Len(Get(ast_patterns, "function_declarations", <<>>)) \div 2)
    + Len(Get(error_patterns, "parse_errors", <<>>))
    + Cardinality(Get(error_patterns, "error_types", {}))

\* _calculate_complexity_score adding every function declaration, not every second
CalculateComplexityScoreWholeDeclarations(directives, check_patterns, expected_errors, ast_patterns, error_patterns) ==
    LET score == Len(directives) * 2
                 + SumClauses(directives)
                 + Len(check_patterns)
                 + Len(expected_errors) * 2
                 + Len(Get(ast_patterns, "function_declarations", <<>>))
                 + Len(Get(error_patterns, "parse_errors", <<>>))
                 + Cardinality(Get(error_patterns, "error_types", {}))
    IN IF score < 10 THEN score ELSE 10

CalculateComplexityScore(directives, check_patterns, expected_errors, ast_patterns, error_patterns) ==
    LET score == Len(directives) * 2
                 + SumClauses(directives)
                 + Len(check_patterns)
                 + Len(expected_errors) * 2
                 + (Len(Get(ast_patterns, "function_declarations", <<>>)) \div 2)
                 + Len(Get(error_patterns, "parse_errors", <<>>))
                 + Cardinality(Get(error_patterns, "error_types", {}))
    IN IF score < 10 THEN score ELSE 10

(***************************************************************************)
(* file_processor.py: the error patterns and the negative-test profile.    *)
(***************************************************************************)
ClassifyExpectedError(expected_error) ==
    LET error_lower == Lower(expected_error)
    IN IF Contains("clause", error_lower) THEN "clause_error"
       ELSE IF Contains("directive", error_lower) THEN "directive_error"
       ELSE IF Contains("syntax", error_lower) \/ Contains("expected", error_lower)
       THEN "syntax_error"
       ELSE IF Contains("semantic", error_lower) \/ Contains("type", error_lower)
       THEN "semantic_error"
       ELSE IF Contains("undeclared", error_lower) \/ Contains("undefined", error_lower)
       THEN "declaration_error"
       ELSE "general_error"

\* re.search(r'\{\{.*?\}\}', expected_error): group 0, if it matches
ExtractRegexPattern(expected_error) ==
    LET open == {j \in 1..Len(expected_error) : StartsAt(expected_error, j, "{{")}
        b == Min(open)
        close == {j \in (b + 2)..Len(expected_error) : StartsAt(expected_error, j, "}}")}
    IN IF open = {} THEN None
       ELSE IF close = {} THEN None
       ELSE Some(SubSeq(expected_error, b, Min(close) + 1))

TriggerTypes == <<"openmp_directive", "expected_error", "expected_warning",
                  "error_comment", "fixme_comment">>
WordChars == Letters \cup Digits \cup {"_"}

\* s[j:].lower().startswith(k), for a lower-case k (re.IGNORECASE)
StartsAtIgnoreCase(s, j, k) ==
    j >= 1 /\ j + Len(k) - 1 <= Len(s) /\ Lower(SubSeq(s, j, j + Len(k) - 1)) = k

\* #pragma\s+omp\s+\w+.*?(?=\n) at position j: the match runs to the next
\* line feed, and there is none without one
PragmaTriggerAt(s, j) ==
    LET b == SkipWhile(s, j + 7, WhiteSpace)
        d == SkipWhile(s, b + 3, WhiteSpace)
        nl == SkipUntil(s, SkipWhile(s, d, WordChars), {"\n"})
    IN [ok |-> StartsAtIgnoreCase(s, j, "#pragma") /\ b > j + 7
                /\ StartsAtIgnoreCase(s, b, "omp") /\ d > b + 3
                /\ Ch(s, d) \in WordChars /\ nl <= Len(s),
        at |-> j,
        text |-> SubSeq(s, j, nl - 1),
        next |-> nl]

\* expected-error.*?"([^"]+)" at position j (key the lower-cased literal): the
\* opening quote is the first one on the line that a non-empty quoted text follows
QuotedTriggerAt(s, j, key) ==
    LET p == j + Len(key)
        eol == SkipUntil(s, p, {"\n"})
        close(q) == SkipUntil(s, q + 1, {"\""})
        quotes == {q \in p..(eol - 1) : Ch(s, q) = "\"" /\ close(q) <= Len(s)
                                        /\ close(q) > q + 1}
        q0 == IF quotes = {} THEN p ELSE Min(quotes)
    IN [ok |-> StartsAtIgnoreCase(s, j, key) /\ quotes # {},
        at |-> j,
        text |-> SubSeq(s, q0 + 1, close(q0) - 1),
        next |-> close(q0) + 1]

\* // ERROR:.* at position j (key the lower-cased literal)
CommentTriggerAt(s, j, key) ==
    LET eol == SkipUntil(s, j + Len(key), {"\n"})
    IN [ok |-> StartsAtIgnoreCase(s, j, key),
        at |-> j,
        text |-> SubSeq(s, j, eol - 1),
        next |-> eol]

TriggerAt(s, j, t) ==
    CASE t = 1 -> PragmaTriggerAt(s, j)
      [] t = 2 -> QuotedTriggerAt(s, j, "expected-error")
      [] t = 3 -> QuotedTriggerAt(s, j, "expected-warning")
      [] t = 4 -> CommentTriggerAt(s, j, "// error:")
      [] t = 5 -> CommentTriggerAt(s, j, "// fixme:")

TriggerStart(t) == IF t = 1 THEN "#" ELSE IF t \in {2, 3} THEN "e" ELSE "/"

\* re.findall of trigger pattern t from position i on: the leftmost of the
\* matches found there, then those after its end
RECURSIVE FindAllTriggers(_, _, _)
TriggersOf(s, t, found) ==
    IF found = {} THEN <<>>
    ELSE <<TriggerTypes[t] \o ": " \o Leftmost(found).text>>
         \o FindAllTriggers(s, IF Leftmost(found).next > Leftmost(found).at
                                THEN Leftmost(found).next
                                ELSE Leftmost(found).at + 1, t)

FindAllTriggers(s, i, t) ==
    TriggersOf(s, t,
               {m \in {TriggerAt(s, j, t) :
                           j \in {j \in i..Len(s) :
                                     LowerChar(Ch(s, j)) = TriggerStart(t)}} : m.ok})

\* the matches of each pattern in turn, in the order of error_triggers
ExtractErrorTriggers(content) ==
    Concat([t \in 1..Len(TriggerTypes) |-> FindAllTriggers(content, 1, t)])

\* the expected patterns line i of the text contributes
RECURSIVE ExpectedOnLine(_, _, _)
ExpectedOnLine(line, i, expected_errors) ==
    IF expected_errors = <<>> THEN <<>>
    ELSE LET expected == Head(expected_errors)
         IN (IF Contains(expected, line)
             THEN <<ExpectedErrorPattern(expected, ClassifyExpectedError(expected),
                                         ExtractRegexPattern(expected), i)>>
             ELSE <<>>)
            \o ExpectedOnLine(line, i, Tail(expected_errors))

RECURSIVE ExpectedPatternsFrom(_, _, _)
ExpectedPatternsFrom(lines, i, expected_errors) ==
    IF i > Len(lines) THEN <<>>
    ELSE ExpectedOnLine(lines[i], i, expected_errors)
         \o ExpectedPatternsFrom(lines, i + 1, expected_errors)

CategorizeErrorPatterns(parse_errors, expected_errors, content) ==
    [parse_errors |-> parse_errors,
     expected_patterns |-> ExpectedPatternsFrom(SplitLines(content), 1, expected_errors),
     trigger_mechanisms |-> ExtractErrorTriggers(content),
     error_types |-> {parse_errors[i].error_type : i \in 1..Len(parse_errors)}]

\* the keys of a dict filled in the order of xs: each value once, at its first place
RECURSIVE KeyOrder(_)
KeyOrder(xs) ==
    IF xs = <<>> THEN <<>>
    ELSE LET init == KeyOrder(SubSeq(xs, 1, Len(xs) - 1))
         IN IF xs[Len(xs)] \in Range(init) THEN init ELSE Append(init, xs[Len(xs)])

MapExpectedToActualErrors(expected_patterns, parse_errors) ==
    LET expected_lines ==
            KeyOrder([i \in 1..Len(expected_patterns) |-> expected_patterns[i].line_number])
        actual_lines ==
            KeyOrder([i \in 1..Len(parse_errors) |-> parse_errors[i].line_number])
        \* expected_by_line[line]: the last pattern of that line
        expected_by_line(line) ==
            expected_patterns[Max({i \in 1..Len(expected_patterns) :
                                      expected_patterns[i].line_number = line})]
        \* the messages of actual_by_line[line], in the order of parse_errors
        messages(line) ==
            LET at == SelectSeq(parse_errors, LAMBDA e : e.line_number = line)
            IN [i \in 1..Len(at) |-> at[i].message]
        matched(line) ==
            IF line \in Range(actual_lines)
            THEN <<[line |-> line, expected |-> expected_by_line(line).pattern,
                    actual |-> messages(line)]>>
            ELSE <<>>
        unmatched(line) ==
            IF line \in Range(actual_lines) THEN <<>>
            ELSE <<expected_by_line(line).pattern>>
        unexpected(line) ==
            IF line \in Range(expected_lines) THEN <<>> ELSE messages(line)
    IN [total_expected |-> Len(expected_patterns),
        total_actual |-> Len(parse_errors),
        matched_errors |->
            Concat([i \in 1..Len(expected_lines) |-> matched(expected_lines[i])]),
        unmatched_expected |->
            Concat([i \in 1..Len(expected_lines) |-> unmatched(expected_lines[i])]),
        unexpected_errors |->
            Concat([i \in 1..Len(actual_lines) |-> unexpected(actual_lines[i])])]

OpenmpConstructs == {"parallel", "for", "sections", "single", "task", "target",
                     "teams", "distribute", "simd", "atomic", "critical", "barrier"}
OpenmpClauses == {"private", "shared", "reduction", "schedule", "collapse",
                  "nowait", "ordered", "default", "copyin", "copyprivate"}

\* the set _identify_error_coverage_areas builds, before list() orders it
CoverageAreaSet(content) ==
    LET content_lower == Lower(content)
    IN {construct \in OpenmpConstructs : Contains(construct, content_lower)}
       \cup {clause \o "_clause" : clause \in {c \in OpenmpClauses : Contains(c, content_lower)}}

\* the strategy chosen with the 'syntax' branch before the 'messages' branch
ErrorTestingStrategySyntaxFirst(file_name) ==
    LET filename == Lower(file_name)
    IN IF Contains("syntax", filename) THEN "syntax_validation"
       ELSE IF Contains("messages", filename) THEN "error_message_validation"
       ELSE IF Contains("semantic", filename) THEN "semantic_validation"
       ELSE "general_error_testing"

ErrorTestingStrategy(file_name) ==
    LET filename == Lower(file_name)
    IN IF Contains("messages", filename) THEN "error_message_validation"
       ELSE IF Contains("syntax", filename) THEN "syntax_validation"
       ELSE IF Contains("semantic", filename) THEN "semantic_validation"
       ELSE "general_error_testing"

ExtractNegativeTestCharacteristics(file_name, content, error_patterns, seed) ==
    LET is_negative == IsNegativeTestCase(file_name, content)
    IN NegativeTestCharacteristics(
           is_negative,
           IF is_negative THEN Some(ErrorTestingStrategy(file_name)) ELSE None,
           IF is_negative
           THEN MapExpectedToActualErrors(error_patterns.expected_patterns,
                                          error_patterns.parse_errors)
           ELSE <<>>,
           IF is_negative THEN ListOfSet(CoverageAreaSet(content), seed) ELSE <<>>,
           Len(error_patterns.trigger_mechanisms))

(***************************************************************************)
(* ast_extractor.py.  The parser is the environment: parser.mode says what *)
(* index.parse does ("raise": it raises, "none": it returns no translation *)
(* unit, "diag_only": the unit has diagnostics but reading its cursor      *)
(* raises, "ok": diagnostics and a tree).  A tree node is a record         *)
(*   [kind, spelling, line, column, children, tokens, fail, type, parent,  *)
(*    file]                                                                *)
(* where type is the spelling of the node's (result) type, parent the kind *)
(* of its semantic parent, file the name of the file of its location;      *)
(* fail = "inspect" makes reading the node raise before its summary is     *)
(* built and fail = "decl" makes node.semantic_parent None.                *)
(***************************************************************************)
DepthLimit == 100

DigitChars == <<"0","1","2","3","4","5","6","7","8","9">>
\* str(n) for an integer n
RECURSIVE IntToStr(_)
IntToStr(n) ==
    IF n < 0 THEN "-" \o IntToStr(-n)
    ELSE IF n < 10 THEN DigitChars[n + 1]
    ELSE IntToStr(n \div 10) \o DigitChars[(n % 10) + 1]

\* repr() of a str without quotes or backslashes, and of a bool
ReprStr(s) == "'" \o s \o "'"
ReprBool(b) == IF b THEN "True" ELSE "False"

\* f"{node.location.line}:{node.location.column}"
LocationOf(node) == IntToStr(node.line) \o ":" \o IntToStr(node.column)

\* _classify_diagnostic_type looking in the message as it is, not lower-cased
ClassifyDiagnosticTypeAsWritten(message) ==
    IF Contains("expected", message) /\ (Contains("(", message) \/ Contains(")", message))
    THEN "syntax_error"
    ELSE IF Contains("openmp", message) /\ Contains("clause", message)
    THEN "openmp_clause_error"
    ELSE IF Contains("directive", message) /\ Contains("cannot contain", message)
    THEN "directive_constraint_error"
    ELSE IF Contains("does not refer to a value", message)
    THEN "reference_error"
    ELSE IF Contains("undeclared", message) \/ Contains("not declared", message)
    THEN "declaration_error"
    ELSE IF Contains("semantic", message) \/ Contains("type", message)
    THEN "semantic_error"
    ELSE "other_error"

ClassifyDiagnosticType(message) ==
    LET message_lower == Lower(message)
    IN IF Contains("expected", message_lower)
          /\ (Contains("(", message_lower) \/ Contains(")", message_lower))
       THEN "syntax_error"
       ELSE IF Contains("openmp", message_lower) /\ Contains("clause", message_lower)
       THEN "openmp_clause_error"
       ELSE IF Contains("directive", message_lower)
               /\ Contains("cannot contain", message_lower)
       THEN "directive_constraint_error"
       ELSE IF Contains("does not refer to a value", message_lower)
       THEN "reference_error"
       ELSE IF Contains("undeclared", message_lower)
               \/ Contains("not declared", message_lower)
       THEN "declaration_error"
       ELSE IF Contains("semantic", message_lower) \/ Contains("type", message_lower)
       THEN "semantic_error"
       ELSE "other_error"

ContainsOpenmp(node) ==
    \/ Contains("omp", Lower(node.spelling))
    \/ \E i \in 1..Len(node.tokens) : Contains("omp", Lower(node.tokens[i].spelling))

\* str(func_info) of _extract_function_declaration
RECURSIVE ReprParameters(_)
ReprParameters(params) ==
    IF params = <<>> THEN ""
    ELSE "{'name': " \o ReprStr(Head(params).spelling)
         \o ", 'type': " \o ReprStr(Head(params).type) \o "}"
         \o (IF Len(params) > 1 THEN ", " ELSE "")
         \o ReprParameters(Tail(params))

ExtractFunctionDeclaration(node, patterns) ==
    LET parameters == SelectSeq(node.children, LAMBDA child : child.kind = "PARM_DECL")
        func_info == [name |-> node.spelling,
                      location |-> LocationOf(node),
                      return_type |-> node.type,
                      parameters |-> [i \in 1..Len(parameters) |->
                                         [name |-> parameters[i].spelling,
                                          type |-> parameters[i].type]],
                      has_openmp |-> ContainsOpenmp(node)]
    IN [patterns EXCEPT !.function_declarations = Append(@, func_info)]

ExtractVariableDeclaration(node, patterns) ==
    LET var_info == [name |-> node.spelling,
                     type |-> node.type,
                     location |-> LocationOf(node),
                     is_global |-> node.parent = "TRANSLATION_UNIT"]
    IN [patterns EXCEPT !.variable_declarations = Append(@, var_info)]

ExtractInclude(node, patterns) ==
    LET include_info == [file |-> node.spelling,
                         location |-> LocationOf(node),
                         is_system |-> IF node.file # None
                                      THEN StartsAt(node.file[1], 1, "/usr/")
                                      ELSE FALSE]
    IN [patterns EXCEPT !.includes = Append(@, include_info)]

StrFunctionInfo(f) ==
    "{'name': " \o ReprStr(f.name) \o ", 'location': " \o ReprStr(f.location)
    \o ", 'return_type': " \o ReprStr(f.return_type)
    \o ", 'parameters': [" \o ReprParameters([i \in 1..Len(f.parameters) |->
            [spelling |-> f.parameters[i].name, type |-> f.parameters[i].type]])
    \o "], 'has_openmp': " \o ReprBool(f.has_openmp) \o "}"

StrVariableInfo(v) ==
    "{'name': " \o ReprStr(v.name) \o ", 'type': " \o ReprStr(v.type)
    \o ", 'location': " \o ReprStr(v.location)
    \o ", 'is_global': " \o ReprBool(v.is_global) \o "}"

ParseOpenmpDirective(pragma_text, location) ==
    LET parts == Split(pragma_text)
    IN IF Len(parts) < 3 THEN None
       ELSE IF parts[2] # "pragma" \/ parts[3] # "omp" THEN None
       ELSE Some(OpenMPDirective(IF Len(parts) > 3 THEN parts[4] ELSE "",
                                 IF Len(parts) > 4 THEN SubSeq(parts, 5, Len(parts))
                                 ELSE <<>>,
                                 location.line, location.column, pragma_text))

\* the tokens from i on that stand on the line of token i, up to the first that does not
PragmaTokens(tokens, i) ==
    LET other == {j \in i..Len(tokens) : tokens[j].line # tokens[i].line}
        last == IF other = {} THEN Len(tokens) ELSE Min(other) - 1
    IN [j \in 1..(last - i + 1) |-> tokens[i + j - 1].spelling]

RECURSIVE PragmasFrom(_, _)
PragmasFrom(tokens, i) ==
    IF i > Len(tokens) THEN <<>>
    ELSE (IF tokens[i].spelling = "#"
             /\ i + 1 <= Len(tokens) /\ tokens[i + 1].spelling = "pragma"
             /\ i + 2 <= Len(tokens) /\ tokens[i + 2].spelling = "omp"
          THEN ParseOpenmpDirective(Join(PragmaTokens(tokens, i)), tokens[i])
          ELSE <<>>)
         \o PragmasFrom(tokens, i + 1)

ExtractOpenmpPragmas(node, patterns) ==
    [patterns EXCEPT !.openmp_directives = @ \o PragmasFrom(node.tokens, 1)]

\* the body of _traverse_ast before its loop over the children: the result
\* is the patterns after it, and whether the loop is reached
InspectNode(node, patterns) ==
    IF node.fail = "inspect" THEN [patterns |-> patterns, descend |-> FALSE]
    ELSE LET node_info == ASTNode("CursorKind." \o node.kind, node.spelling, LocationOf(node),
                                  Len(node.children), ContainsOpenmp(node))
             summarised == [patterns EXCEPT !.ast_nodes = Append(@, node_info)]
         IN IF node.kind = "VAR_DECL" /\ node.fail = "decl"
            THEN [patterns |-> summarised, descend |-> FALSE]
            ELSE LET declared ==
                         IF node.kind = "FUNCTION_DECL"
                         THEN ExtractFunctionDeclaration(node, summarised)
                         ELSE IF node.kind = "VAR_DECL"
                         THEN ExtractVariableDeclaration(node, summarised)
                         ELSE IF node.kind = "INCLUSION_DIRECTIVE"
                         THEN ExtractInclude(node, summarised)
                         ELSE summarised
                 IN [patterns |-> ExtractOpenmpPragmas(node, declared), descend |-> TRUE]

\* a call of _traverse_ast that does not look at the depth
VisitNodeUnbounded(node, patterns, depth) == InspectNode(node, patterns)

\* a call of _traverse_ast up to its loop over the children
VisitNode(node, patterns, depth) ==
    IF depth > DepthLimit THEN [patterns |-> patterns, descend |-> FALSE]
    ELSE InspectNode(node, patterns)

RECURSIVE TraverseAst(_, _, _)
RECURSIVE TraverseChildren(_, _, _)
\* the loop over the children taking the last child first
TraverseChildrenLastFirst(children, patterns, depth) ==
    IF children = <<>> THEN patterns
    ELSE TraverseChildren(SubSeq(children, 1, Len(children) - 1),
                          TraverseAst(children[Len(children)], patterns, depth), depth)

TraverseAst(node, patterns, depth) ==
    LET visited == VisitNode(node, patterns, depth)
    IN IF visited.descend
       THEN TraverseChildren(node.children, visited.patterns, depth + 1)
       ELSE visited.patterns

TraverseChildren(children, patterns, depth) ==
    IF children = <<>> THEN patterns
    ELSE TraverseChildren(Tail(children),
                          TraverseAst(Head(children), patterns, depth), depth)

\* a diagnostic is [spelling, location (Optional [line, column]), severity]
DiagnosticToParseError(diag) ==
    ParseError(ClassifyDiagnosticType(diag.spelling),
               diag.spelling,
               IF diag.location # None THEN diag.location[1].line ELSE 0,
               IF diag.location # None THEN diag.location[1].column ELSE 0,
               IntToStr(diag.severity))

EmptyDict == <<>>

ExtractPatterns(p) ==
    IF p.mode \in {"raise", "none"} THEN EmptyDict
    ELSE LET patterns ==
                 [ast_nodes |-> <<>>, openmp_directives |-> <<>>,
                  function_declarations |-> <<>>, variable_declarations |-> <<>>,
                  includes |-> <<>>, macros |-> <<>>,
                  parse_errors |-> [i \in 1..Len(p.diagnostics) |->
                                       DiagnosticToParseError(p.diagnostics[i])]]
         IN IF p.mode = "diag_only" THEN patterns
            ELSE TraverseAst(p.tree, patterns, 0)

(***************************************************************************)
(* file_processor.py: process_test_file.  A file is a record               *)
(*   [path, name, exists, readable, content, size];                        *)
(* seed is the hash salt of the running process, clock the time            *)
(* datetime.now() returns.                                                 *)
(***************************************************************************)
ReadFileContent(f) == IF f.readable THEN Some(f.content) ELSE None

ExtractFileInfo(f, content) ==
    [size |-> f.size, line_count |-> Len(SplitLines(content))]

\* datetime.isoformat() of the time t
IsoFormat(t) == "2025-01-01T00:00:" \o (IF t < 10 THEN "0" ELSE "") \o IntToStr(t)

\* lines 57 to 116: what is derived from the extracted values, and the
\* TestPattern made of them all
BuildTestPattern(f, seed, clock, content, file_info, run_commands, openmp_directives, check_patterns, expected_errors, expected_warnings, ast_patterns, error_patterns) ==
    [cls |-> "TestPattern",
     file_path |-> f.path,
     file_name |-> f.name,
     file_size |-> file_info.size,
     compiler_stage |-> DetermineCompilerStage(run_commands, content),
     run_commands |-> run_commands,
     compiler_flags |-> ListOfSet(CompilerFlagSet(run_commands), seed),
     openmp_directives |-> openmp_directives,
     openmp_version |-> ExtractOpenmpVersion(content, run_commands),
     test_category |-> CategorizeTest(f.name, openmp_directives, content),
     check_patterns |-> check_patterns,
     expected_errors |-> expected_errors,
     expected_warnings |-> expected_warnings,
     ast_nodes |-> Get(ast_patterns, "ast_nodes", <<>>),
     function_declarations |->
         MapSeq(Get(ast_patterns, "function_declarations", <<>>), StrFunctionInfo),
     variable_declarations |->
         MapSeq(Get(ast_patterns, "variable_declarations", <<>>), StrVariableInfo),
     ir_patterns |-> ExtractIrPatterns(check_patterns),
     runtime_calls |-> ListOfSet(RuntimeCallSet(check_patterns), seed),
     parse_errors |-> error_patterns.parse_errors,
     expected_error_patterns |-> error_patterns.expected_patterns,
     negative_test_characteristics |->
         ExtractNegativeTestCharacteristics(f.name, content, error_patterns, seed),
     error_trigger_mechanisms |-> error_patterns.trigger_mechanisms,
     error_types |-> ListOfSet(error_patterns.error_types, seed),
     complexity_score |->
         CalculateComplexityScore(openmp_directives, check_patterns, expected_errors,
                                  ast_patterns, error_patterns),
     line_count |-> file_info.line_count,
     created_timestamp |-> IsoFormat(clock)]

\* lines 50 to 54: the error patterns, of the parse errors and the expected errors
AnalyzeErrors(f, seed, clock, content, file_info, run_commands, openmp_directives, check_patterns, expected_errors, expected_warnings, ast_patterns) ==
    BuildTestPattern(f, seed, clock, content, file_info, run_commands,
                     openmp_directives, check_patterns, expected_errors,
                     expected_warnings, ast_patterns,
                     CategorizeErrorPatterns(Get(ast_patterns, "parse_errors", <<>>),
                                             expected_errors, content))

\* lines 30 to 47: what is extracted from the text, and by the parser
AnalyzeContent(f, p, seed, clock, content) ==
    AnalyzeErrors(f, seed, clock, content,
                  ExtractFileInfo(f, content),
                  ExtractRunCommands(content),
                  ExtractOpenmpDirectives(content),
                  ExtractCheckPatterns(content),
                  ExtractExpectedErrors(content),
                  ExtractExpectedWarnings(content),
                  ExtractPatterns(p))

\* Optional[TestPattern]
ProcessTestFile(f, p, seed, clock) ==
    IF ~f.exists THEN None
    ELSE IF ReadFileContent(f) = None THEN None
    ELSE IF ReadFileContent(f)[1] = "" THEN None
    ELSE Some(AnalyzeContent(f, p, seed, clock, ReadFileContent(f)[1]))

(***************************************************************************)
(* models.py: to_dict and from_dict; json.dumps and json.loads of the      *)
(* dict, as store_pattern and get_patterns_by_stage apply them.            *)
(***************************************************************************)
\* dataclasses.asdict of an instance whose fields hold no dataclass
AsDictFlat(obj) == [k \in DOMAIN obj \ {"cls"} |-> obj[k]]

\* dataclasses.asdict(self) for a TestPattern: enums are kept as they are
AsDict(self) ==
    [k \in DOMAIN self \ {"cls"} |->
        IF k \in {"openmp_directives", "ast_nodes", "parse_errors",
                  "expected_error_patterns"}
        THEN MapSeq(self[k], AsDictFlat)
        ELSE IF k = "negative_test_characteristics" THEN AsDictFlat(self[k])
        ELSE self[k]]

ToDict(self) ==
    LET result == AsDict(self)
    IN [result EXCEPT !.compiler_stage = StageValue(self.compiler_stage),
                      !.test_category = CategoryValue(self.test_category)]

\* CompilerStage(value) and TestCategory(value): Optional, None where Python raises
StageOfValue(value) ==
    LET hit == {m \in CompilerStage : StageValue(m) = value}
    IN IF hit = {} THEN None ELSE Some(CHOOSE m \in hit : TRUE)
CategoryOfValue(value) ==
    LET hit == {m \in TestCategory : CategoryValue(m) = value}
    IN IF hit = {} THEN None ELSE Some(CHOOSE m \in hit : TRUE)

\* Cls(**d)
Construct(cls, d) == [k \in DOMAIN d \cup {"cls"} |-> IF k = "cls" THEN cls ELSE d[k]]

\* whether from_dict's isinstance(x, dict) holds
IsDict(x) == "cls" \notin DOMAIN x

\* from_dict leaving the parse errors as the dicts they arrive as
FromDictKeepingErrorDicts(data) ==
    LET stage == StageOfValue(data.compiler_stage)
        category == CategoryOfValue(data.test_category)
        build(cls, d) == IF IsDict(d) THEN Construct(cls, d) ELSE d
        directive(d) == build("OpenMPDirective", d)
        node(n) == build("ASTNode", n)
        expected(e) == build("ExpectedErrorPattern", e)
    IN IF stage = None \/ category = None THEN None
       ELSE Some(Construct("TestPattern",
                [data EXCEPT
                    !.compiler_stage = stage[1],
                    !.test_category = category[1],
                    !.openmp_directives = MapSeq(@, directive),
                    !.ast_nodes = MapSeq(@, node),
                    !.expected_error_patterns = MapSeq(@, expected),
                    !.negative_test_characteristics =
                        build("NegativeTestCharacteristics", @)]))

\* Optional[TestPattern]: None where from_dict raises
FromDict(data) ==
    LET stage == StageOfValue(data.compiler_stage)
        category == CategoryOfValue(data.test_category)
        build(cls, d) == IF IsDict(d) THEN Construct(cls, d) ELSE d
        directive(d) == build("OpenMPDirective", d)
        node(n) == build("ASTNode", n)
        error(e) == build("ParseError", e)
        expected(e) == build("ExpectedErrorPattern", e)
    IN IF stage = None \/ category = None THEN None
       ELSE Some(Construct("TestPattern",
                [data EXCEPT
                    !.compiler_stage = stage[1],
                    !.test_category = category[1],
                    !.openmp_directives = MapSeq(@, directive),
                    !.ast_nodes = MapSeq(@, node),
                    !.parse_errors = MapSeq(@, error),
                    !.expected_error_patterns = MapSeq(@, expected),
                    !.negative_test_characteristics =
                        build("NegativeTestCharacteristics", @)]))

\* the JSON text of a str, and back
JsonEscapeChar(c) ==
    CASE c = "\"" -> "\\\""
      [] c = "\\" -> "\\\\"
      [] c = "\n" -> "\\n"
      [] c = "\r" -> "\\r"
      [] c = "\t" -> "\\t"
      [] OTHER -> c

RECURSIVE JsonEscape(_)
JsonEscape(s) ==
    IF Len(s) <= 1 THEN JsonEscapeChar(s)
    ELSE JsonEscape(SubSeq(s, 1, Len(s) \div 2))
         \o JsonEscape(SubSeq(s, Len(s) \div 2 + 1, Len(s)))

\* the text up to the first backslash, the character its escape stands for,
\* and the rest likewise
RECURSIVE JsonUnescape(_)
JsonUnescape(s) ==
    LET b == SkipUntil(s, 1, {"\\"})
        c == Ch(s, b + 1)
    IN IF b > Len(s) THEN s
       ELSE SubSeq(s, 1, b - 1)
            \o (CASE c = "n" -> "\n"
                  [] c = "r" -> "\r"
                  [] c = "t" -> "\t"
                  [] OTHER -> c)
            \o JsonUnescape(SubSeq(s, b + 2, Len(s)))

JsonStr(s) == "\"" \o JsonEscape(s) \o "\""
ParseJsonStr(t) == JsonUnescape(SubSeq(t, 2, Len(t) - 1))

\* int(t) for a decimal numeral t
RECURSIVE StrToInt(_)
StrToInt(t) ==
    IF Ch(t, 1) = "-" THEN 0 - StrToInt(SubSeq(t, 2, Len(t)))
    ELSE LET d == (CHOOSE i \in 1..10 : DigitChars[i] = Ch(t, Len(t))) - 1
         IN IF Len(t) = 1 THEN d ELSE StrToInt(SubSeq(t, 1, Len(t) - 1)) * 10 + d

\* The Python type of each value of the dict to_dict returns.
TStr == [t |-> "str"]
TInt == [t |-> "int"]
TBool == [t |-> "bool"]
TOptStr == [t |-> "optional str"]
TList(of) == [t |-> "list", of |-> of]
TDict(fields) == [t |-> "dict", fields |-> fields]
\* a dict that is either empty or has these fields
TDictOrEmpty(fields) == [t |-> "dict or {}", fields |-> fields]

CorrelationType ==
    TDictOrEmpty([total_expected |-> TInt, total_actual |-> TInt,
                  matched_errors |-> TList(TDict([line |-> TInt, expected |-> TStr,
                                                  actual |-> TList(TStr)])),
                  unmatched_expected |-> TList(TStr),
                  unexpected_errors |-> TList(TStr)])

PatternDictType ==
    TDict([file_path |-> TStr, file_name |-> TStr, file_size |-> TInt,
           compiler_stage |-> TStr, run_commands |-> TList(TStr),
           compiler_flags |-> TList(TStr),
           openmp_directives |->
               TList(TDict([name |-> TStr, clauses |-> TList(TStr),
                            line_number |-> TInt, column_number |-> TInt,
                            full_text |-> TStr])),
           openmp_version |-> TOptStr,
           test_category |-> TStr, check_patterns |-> TList(TStr),
           expected_errors |-> TList(TStr), expected_warnings |-> TList(TStr),
           ast_nodes |->
               TList(TDict([node_type |-> TStr, spelling |-> TStr, location |-> TStr,
                            children_count |-> TInt, has_openmp |-> TBool])),
           function_declarations |-> TList(TStr),
           variable_declarations |-> TList(TStr),
           ir_patterns |-> TList(TStr), runtime_calls |-> TList(TStr),
           parse_errors |->
               TList(TDict([error_type |-> TStr, message |-> TStr,
                            line_number |-> TInt, column_number |-> TInt,
                            severity |-> TStr])),
           expected_error_patterns |->
               TList(TDict([pattern |-> TStr, error_category |-> TStr,
                            regex_pattern |-> TOptStr, line_number |-> TInt])),
           negative_test_characteristics |->
               TDict([is_negative_test |-> TBool,
                      error_testing_strategy |-> TOptStr,
                      expected_vs_actual_errors |-> CorrelationType,
                      error_coverage_areas |-> TList(TStr),
                      error_trigger_count |-> TInt]),
           error_trigger_mechanisms |-> TList(TStr), error_types |-> TList(TStr),
           complexity_score |-> TInt, line_count |-> TInt,
           created_timestamp |-> TStr])

\* json.dumps(v) for a value v of type ty: arrays and objects keep their
\* structure, every scalar becomes its JSON text
RECURSIVE JsonDumps(_, _)
JsonDumps(v, ty) ==
    CASE ty.t = "str" -> JsonStr(v)
      [] ty.t = "int" -> IntToStr(v)
      [] ty.t = "bool" -> IF v THEN "true" ELSE "false"
      [] ty.t = "optional str" -> IF v = None THEN "null" ELSE JsonStr(v[1])
      [] ty.t = "list" -> [i \in 1..Len(v) |-> JsonDumps(v[i], ty.of)]
      [] ty.t = "dict" -> [k \in DOMAIN v |-> JsonDumps(v[k], ty.fields[k])]
      [] ty.t = "dict or {}" ->
            IF v = EmptyDict THEN EmptyDict
            ELSE [k \in DOMAIN v |-> JsonDumps(v[k], ty.fields[k])]

\* json.loads of that text: the type of each value is read off the text
JsonScalar(j) ==
    IF j = "null" THEN [t |-> "NoneType", v |-> None]
    ELSE IF j = "true" THEN [t |-> "bool", v |-> <<TRUE>>]
    ELSE IF j = "false" THEN [t |-> "bool", v |-> <<FALSE>>]
    ELSE IF Ch(j, 1) = "\"" THEN [t |-> "str", v |-> <<ParseJsonStr(j)>>]
    ELSE [t |-> "int", v |-> <<StrToInt(j)>>]

RECURSIVE JsonLoads(_, _)
JsonLoads(j, ty) ==
    CASE ty.t \in {"str", "int", "bool"} -> JsonScalar(j).v[1]
      [] ty.t = "optional str" -> JsonScalar(j).v
      [] ty.t = "list" -> [i \in 1..Len(j) |-> JsonLoads(j[i], ty.of)]
      [] ty.t = "dict" -> [k \in DOMAIN j |-> JsonLoads(j[k], ty.fields[k])]
      [] ty.t = "dict or {}" ->
            IF j = EmptyDict THEN EmptyDict
            ELSE [k \in DOMAIN j |-> JsonLoads(j[k], ty.fields[k])]

(***************************************************************************)
(* file_finder.py: find_openmp_test_files.  base_dir is a record           *)
(* [exists, files], files the set of files found below it.                 *)
(***************************************************************************)
SupportedExtensions == {".c", ".cpp", ".cc", ".cxx"}

EndsWith(s, k) == Len(k) <= Len(s) /\ SubSeq(s, Len(s) - Len(k) + 1, Len(s)) = k

\* Path.suffix of a file name
Suffix(name) ==
    LET dots == {i \in 2..Len(name) : Ch(name, i) = "."}
    IN IF dots = {} THEN "" ELSE SubSeq(name, Max(dots), Len(name))

\* base_dir.glob(pattern) over OPENMP_TEST_PATTERNS: does one of them match f
GlobMatches(f) ==
    /\ f.exists
    /\ \E ext \in {".c", ".cpp"} :
          /\ EndsWith(f.name, ext)
          /\ \/ StartsAt(f.name, 1, "openmp")
             \/ StartsAt(f.name, 1, "fopenmp")
             \/ Contains("/OpenMP/", f.path)

MatchesOpenmpPattern(filename) ==
    \E keyword \in {"openmp", "omp", "fopenmp", "parallel", "pragma_omp"} :
        Contains(keyword, Lower(filename))

IsOpenmpTestFile(f) ==
    /\ f.readable
    /\ \E indicator \in {"#pragma omp", "-fopenmp", "openmp", "__kmpc_", "omp_"} :
          Contains(indicator, Lower(f.content))

\* the characters of the sample paths, in the order of their codes
CodeOrder == "-./0123456789ABCDEFGHIJKLMNOPQRSTUVWXYZ_abcdefghijklmnopqrstuvwxyz"
CharCode(c) == CHOOSE i \in 1..Len(CodeOrder) : Ch(CodeOrder, i) = c

\* a < b for two paths of one directory
PathLess(a, b) ==
    LET diffs == {i \in 1..Min({Len(a), Len(b)}) : Ch(a, i) # Ch(b, i)}
    IN IF diffs = {} THEN Len(a) < Len(b)
       ELSE CharCode(Ch(a, Min(diffs))) < CharCode(Ch(b, Min(diffs)))

\* sorted(valid_files)
RECURSIVE SortedFiles(_)
SortedFiles(files) ==
    IF files = {} THEN <<>>
    ELSE LET first == CHOOSE f \in files :
                          \A g \in files \ {f} : PathLess(f.path, g.path)
         IN <<first>> \o SortedFiles(files \ {first})

FindOpenmpTestFiles(base_dir) ==
    IF ~base_dir.exists THEN <<>>
    ELSE LET walked == {f \in base_dir.files :
                           /\ f.exists
                           /\ Suffix(f.name) \in SupportedExtensions
                           /\ MatchesOpenmpPattern(f.name)}
             found_files == {f \in base_dir.files : GlobMatches(f)} \cup walked
             valid_files == {f \in found_files :
                                /\ f.exists
                                /\ Suffix(f.name) \in SupportedExtensions
                                /\ IsOpenmpTestFile(f)}
         IN SortedFiles(valid_files)

(***************************************************************************)
(* storage.py: store_pattern.  The database is a record of its tables,     *)
(* each the sequence of its rows in the order of their ids.                *)
(***************************************************************************)
EmptyDatabase ==
    [test_patterns |-> <<>>, openmp_directives |-> <<>>, parse_errors |-> <<>>,
     expected_error_patterns |-> <<>>, ast_nodes |-> <<>>]

\* the id AUTOINCREMENT gives the next row of a table
NextRowId(rows) ==
    IF rows = <<>> THEN 1 ELSE Max({rows[i].id : i \in 1..Len(rows)}) + 1

\* the rows of a child table once store_pattern has deleted those of
\* pattern_id and inserted one row per item
ChildRows(rows, pattern_id, columns) ==
    LET kept == SelectSeq(rows, LAMBDA r : r.pattern_id # pattern_id)
        first == NextRowId(rows)
    IN kept \o [i \in 1..Len(columns) |->
                   [id |-> first + i - 1, pattern_id |-> pattern_id,
                    columns |-> columns[i]]]

DirectiveColumns(directive) ==
    [directive_name |-> directive.name,
     clauses |-> JsonDumps(directive.clauses, TList(TStr)),
     line_number |-> directive.line_number,
     column_number |-> directive.column_number,
     full_text |-> directive.full_text]

ParseErrorColumns(error) == AsDictFlat(error)

ExpectedColumns(expected) == AsDictFlat(expected)

NodeColumns(node) == AsDictFlat(node)

\* INSERT without OR REPLACE, were file_path not UNIQUE: every row stays
RowsOfAllPaths(rows, file_path) == rows

\* the rows INSERT OR REPLACE leaves of test_patterns, file_path being UNIQUE
RowsOfOtherPaths(rows, file_path) ==
    SelectSeq(rows, LAMBDA r : r.file_path # file_path)

\* the database after a store_pattern(pattern) that commits
StorePattern(d, pattern) ==
    LET pattern_id == NextRowId(d.test_patterns)
        others == RowsOfOtherPaths(d.test_patterns, pattern.file_path)
        row == [id |-> pattern_id,
                file_path |-> pattern.file_path,
                file_name |-> pattern.file_name,
                file_size |-> pattern.file_size,
                compiler_stage |-> StageValue(pattern.compiler_stage),
                test_category |-> CategoryValue(pattern.test_category),
                openmp_version |-> pattern.openmp_version,
                complexity_score |-> pattern.complexity_score,
                line_count |-> pattern.line_count,
                is_negative_test |->
                    pattern.negative_test_characteristics.is_negative_test,
                error_count |-> Len(pattern.parse_errors),
                created_timestamp |-> pattern.created_timestamp,
                pattern_data |-> JsonDumps(ToDict(pattern), PatternDictType)]
    IN [test_patterns |-> Append(others, row),
        openmp_directives |->
            ChildRows(d.openmp_directives, pattern_id,
                      MapSeq(pattern.openmp_directives, DirectiveColumns)),
        parse_errors |->
            ChildRows(d.parse_errors, pattern_id,
                      MapSeq(pattern.parse_errors, ParseErrorColumns)),
        expected_error_patterns |->
            ChildRows(d.expected_error_patterns, pattern_id,
                      MapSeq(pattern.expected_error_patterns, ExpectedColumns)),
        ast_nodes |->
            ChildRows(d.ast_nodes, pattern_id,
                      MapSeq(pattern.ast_nodes, NodeColumns))]

(***************************************************************************)
(* storage.py: get_statistics.  A dict is a function on its keys.          *)
(***************************************************************************)
TopLimit == 10

\* SELECT key, COUNT(*) ... GROUP BY key, as a dict
GroupCount(keys) ==
    [k \in Range(keys) |-> Cardinality({i \in 1..Len(keys) : keys[i] = k})]

\* the dicts ORDER BY COUNT(*) DESC LIMIT 10 can give: the order of groups
\* of one count is not determined
TopGroups(counts) ==
    {[k \in S |-> counts[k]] :
        S \in {T \in SUBSET DOMAIN counts :
                  /\ Cardinality(T) = Min({TopLimit, Cardinality(DOMAIN counts)})
                  /\ \A k \in T, other \in DOMAIN counts \ T : counts[k] >= counts[other]}}

DirectiveNameOfRow(row) == row.columns.directive_name
ErrorTypeOfRow(row) == row.columns.error_type
StageOfRow(row) == row.compiler_stage
CategoryOfRow(row) == row.test_category

\* the dicts get_statistics() can return on the database d
GetStatistics(d) ==
    {[total_patterns |-> Len(d.test_patterns),
      negative_test_patterns |->
          Len(SelectSeq(d.test_patterns, LAMBDA row : row.is_negative_test)),
      by_stage |-> GroupCount(MapSeq(d.test_patterns, StageOfRow)),
      by_category |-> GroupCount(MapSeq(d.test_patterns, CategoryOfRow)),
      top_directives |-> top,
      error_types |-> GroupCount(MapSeq(d.parse_errors, ErrorTypeOfRow)),
      total_parse_errors |-> Len(d.parse_errors)] :
        top \in TopGroups(GroupCount(MapSeq(d.openmp_directives, DirectiveNameOfRow)))}

(***************************************************************************)
(* The inputs the specifications draw from.                                *)
(***************************************************************************)
MaxDiagnostics == 2
MaxCalls == 2
MaxFiles == 2
MaxDirectives == 1
MaxCount == 2

SampleFiles ==
    <<[path |-> "/t/OpenMP/empty.c", name |-> "empty.c",
       exists |-> TRUE, readable |-> TRUE, size |-> 0,
       content |-> ""],
      [path |-> "/t/OpenMP/gone.c", name |-> "gone.c",
       exists |-> FALSE, readable |-> FALSE, size |-> 0,
       content |-> ""],
      [path |-> "/t/OpenMP/locked.c", name |-> "locked.c",
       exists |-> TRUE, readable |-> FALSE, size |-> 21,
       content |-> "#pragma omp parallel\n"],
      [path |-> "/t/OpenMP/parallel_messages.c", name |-> "parallel_messages.c",
       exists |-> TRUE, readable |-> TRUE, size |-> 105,
       content |-> "// RUN: %clang_cc1 -verify -fopenmp %s\n#pragma omp parallel private(x)\nint x; // expected-error: {{bad}}\n"],
      [path |-> "/t/OpenMP/target_codegen.cpp", name |-> "target_codegen.cpp",
       exists |-> TRUE, readable |-> TRUE, size |-> 134,
       content |-> "// RUN: %clang -fopenmp -emit-llvm %s | FileCheck %s\n// CHECK: call void @__kmpc_fork_call(\n// CHECK: @omp_get_num\n#pragma omp target\n"],
      [path |-> "/t/OpenMP/x.c", name |-> "x.c",
       exists |-> TRUE, readable |-> TRUE, size |-> 27,
       content |-> "// OpenMP 4.5 atomic\nint y;"],
      [path |-> "/t/OpenMP/spaced.c", name |-> "spaced.c",
       exists |-> TRUE, readable |-> TRUE, size |-> 66,
       content |-> "void omp_f(int n) {\n# pragma omp for nowait\n}\nint g;\nint h(void);\n"]>>

SampleDiagnostics ==
    <<[spelling |-> "expected ')'",
       location |-> Some([line |-> 3, column |-> 7]), severity |-> 3],
      [spelling |-> "use of undeclared identifier 'x'",
       location |-> Some([line |-> 2, column |-> 1]), severity |-> 3],
      [spelling |-> "unused variable",
       location |-> None, severity |-> 2]>>

Token(spelling, line, column) == [spelling |-> spelling, line |-> line, column |-> column]

Node(kind, spelling, line, column, fail, type, parent, file_name, tokens, children) ==
    [kind |-> kind, spelling |-> spelling, line |-> line, column |-> column,
     fail |-> fail, type |-> type, parent |-> parent, file |-> file_name,
     tokens |-> tokens, children |-> children]

SampleTrees ==
    <<Node("TRANSLATION_UNIT", "t.c", 0, 0, "none", "", "", None,
           <<>>,
           <<>>),
      Node("TRANSLATION_UNIT", "t.c", 0, 0, "none", "", "", None,
           <<>>,
           <<
          Node("FUNCTION_DECL", "omp_f", 1, 6, "none", "void", "TRANSLATION_UNIT", None,
               <<>>,
               <<
              Node("PARM_DECL", "n", 1, 16, "none", "int", "FUNCTION_DECL", None,
                   <<>>,
                   <<>>),
              Node("COMPOUND_STMT", "", 1, 19, "none", "", "FUNCTION_DECL", None,
                   <<Token("{", 1, 19),
                     Token("#", 2, 1),
                     Token("pragma", 2, 2),
                     Token("omp", 2, 9),
                     Token("for", 2, 13),
                     Token("nowait", 2, 17),
                     Token("}", 3, 1)>>,
                   <<>>)>>),
          Node("VAR_DECL", "g", 4, 5, "none", "int", "TRANSLATION_UNIT", None,
               <<>>,
               <<>>),
          Node("FUNCTION_DECL", "h", 5, 5, "none", "int", "TRANSLATION_UNIT", None,
               <<>>,
               <<>>)>>),
      Node("TRANSLATION_UNIT", "t.c", 0, 0, "none", "", "", None,
           <<>>,
           <<
          Node("INCLUSION_DIRECTIVE", "omp.h", 1, 1, "none", "", "TRANSLATION_UNIT", Some("/usr/include/omp.h"),
               <<>>,
               <<>>),
          Node("VAR_DECL", "v", 2, 5, "decl", "int", "TRANSLATION_UNIT", None,
               <<>>,
               <<
              Node("INTEGER_LITERAL", "", 2, 9, "none", "", "VAR_DECL", None,
                   <<>>,
                   <<>>)>>),
          Node("UNEXPOSED_DECL", "", 3, 1, "inspect", "", "TRANSLATION_UNIT", None,
               <<>>,
               <<
              Node("FUNCTION_DECL", "lost", 3, 5, "none", "void", "TRANSLATION_UNIT", None,
                   <<>>,
                   <<>>)>>),
          Node("FUNCTION_DECL", "k", 4, 6, "none", "void", "TRANSLATION_UNIT", None,
               <<>>,
               <<>>)>>)>>

DiagnosticLists == {<<>>, SubSeq(SampleDiagnostics, 1,
                                 Min({MaxDiagnostics, Len(SampleDiagnostics)}))}

\* what index.parse and the traversal do on the file: parse raises, parse
\* returns no translation unit, the traversal fails at the root, or both succeed
Parsers ==
    {[mode |-> m, diagnostics |-> <<>>, tree |-> SampleTrees[1]] : m \in {"raise", "none"}}
    \cup {[mode |-> "diag_only", diagnostics |-> d, tree |-> SampleTrees[1]] :
             d \in DiagnosticLists}
    \cup {[mode |-> "ok", diagnostics |-> d, tree |-> t] :
             d \in DiagnosticLists, t \in Range(SampleTrees)}

CanProcess(f) == f.exists /\ f.readable /\ f.content # ""

\* the parser outcomes the batch draws from
BatchParsers ==
    {[mode |-> "raise", diagnostics |-> <<>>, tree |-> SampleTrees[1]],
     [mode |-> "ok",
      diagnostics |-> SubSeq(SampleDiagnostics, 1,
                             Min({MaxDiagnostics, Len(SampleDiagnostics)})),
      tree |-> SampleTrees[2]]}

\* the directories find_openmp_test_files may be run on
BaseDirs ==
    {[exists |-> FALSE, files |-> {}]}
    \cup {[exists |-> TRUE, files |-> S] :
             S \in {T \in SUBSET Range(SampleFiles) : Cardinality(T) <= MaxFiles}}

\* a file of the list as process_test_file finds it later: as it was when
\* the list was made, removed, made unreadable, or truncated
FileAtProcessing(f) ==
    {f, [f EXCEPT !.exists = FALSE], [f EXCEPT !.readable = FALSE],
     [f EXCEPT !.content = "", !.size = 0]}

\* the arguments _categorize_test is called with
CategoryFilenames ==
    {"a.c", "Parallel_for.c", "single.c", "sections.c", "target_simd.c",
     "atomic_task.c", "barrier.c", "task.c"}

CategoryDirectiveNames ==
    {"parallel for", "for", "single", "target teams", "atomic", "barrier",
     "SIMD", "taskloop"}

CategoryDirectiveLists ==
    UNION {[1..n -> {OpenMPDirective(name, <<>>, 1, 1, "#pragma omp " \o name) :
                        name \in CategoryDirectiveNames}] : n \in 0..MaxDirectives}

CategoryContents == {"", "int parallel_region;", "for single target CRITICAL simd task"}

CategoryInputs ==
    {[filename |-> f, directives |-> d, content |-> c] :
        f \in CategoryFilenames, d \in CategoryDirectiveLists, c \in CategoryContents}

\* the arguments _calculate_complexity_score is first called with: the
\* parser's dict is empty when it failed
ScoreInputs ==
    {[directives |-> <<>>, check_patterns |-> <<>>, expected_errors |-> <<>>,
      ast_patterns |-> a,
      error_patterns |-> [parse_errors |-> <<>>, expected_patterns |-> <<>>,
                          trigger_mechanisms |-> <<>>, error_types |-> {}]] :
        a \in {EmptyDict, ExtractPatterns([mode |-> "diag_only", diagnostics |-> <<>>,
                                          tree |-> SampleTrees[1]])}}

ErrorTypeNames == {"syntax_error", "declaration_error", "type_error", "other_error"}

(***************************************************************************)
(* The variables a specification leaves alone.                             *)
(***************************************************************************)
FileVars == <<file, parser, recs, restored>>
BatchVars == <<test_files, idx, successful_count, failed_count, pc, returned, trace, db>>
CategoryVars == <<cat_in, cat_out>>
ScoreVars == <<score_in, score_out>>
CallVars == <<call_in, call_out>>

FileIdle == file = None /\ parser = None /\ recs = <<>> /\ restored = None
BatchIdle ==
    /\ test_files = <<>> /\ idx = 0 /\ successful_count = 0 /\ failed_count = 0
    /\ pc = "idle" /\ returned = None /\ trace = <<>> /\ db = EmptyDatabase
CategoryIdle == cat_in = None /\ cat_out = <<>>
ScoreIdle == score_in = None /\ score_out = None
CallIdle == call_in = None /\ call_out = None

(***************************************************************************)
(* FileSpec: process_test_file called repeatedly on one unchanged file     *)
(* with one parser outcome, in one process or in successive processes, and *)
(* its latest record serialised and read back.                             *)
(***************************************************************************)
FileInit ==
    /\ file \in Range(SampleFiles)
    /\ parser \in Parsers
    /\ hash_seed \in HashSeeds
    /\ now = 0
    /\ recs = <<>>
    /\ restored = None
    /\ BatchIdle /\ CategoryIdle /\ ScoreIdle /\ CallIdle

\* one call of process_test_file
Process ==
    /\ file # None
    /\ Len(recs) < MaxCalls
    /\ recs' = Append(recs, ProcessTestFile(file, parser, hash_seed, now))
    /\ now' = now + 1
    /\ restored' = None
    /\ UNCHANGED <<file, parser, hash_seed>>
    /\ UNCHANGED <<BatchVars, CategoryVars, ScoreVars, CallVars>>

\* the process ends and the next one starts, with a hash salt of its own
Restart ==
    /\ recs # <<>>
    /\ Len(recs) < MaxCalls
    /\ \E seed \in HashSeeds \ {hash_seed} : hash_seed' = seed
    /\ UNCHANGED <<file, parser, now, recs, restored>>
    /\ UNCHANGED <<BatchVars, CategoryVars, ScoreVars, CallVars>>

\* to_dict of the latest record, then from_dict: directly, and through
\* json.dumps and json.loads as store_pattern and get_patterns_by_stage do
RoundTrip ==
    /\ restored = None
    /\ recs # <<>>
    /\ recs[Len(recs)] # None
    /\ LET r == recs[Len(recs)][1]
           d == ToDict(r)
       IN restored' =
              Some([of |-> r,
                    direct |-> FromDict(d),
                    stored |-> FromDict(JsonLoads(JsonDumps(d, PatternDictType),
                                                  PatternDictType))])
    /\ UNCHANGED <<file, parser, hash_seed, now, recs>>
    /\ UNCHANGED <<BatchVars, CategoryVars, ScoreVars, CallVars>>

FileNext == Process \/ Restart \/ RoundTrip

FileSpec == FileInit /\ [][FileNext]_vars

(***************************************************************************)
(* CategorySpec: _categorize_test called repeatedly on one input, either   *)
(* directly or by process_test_file on one file.                           *)
(***************************************************************************)
CategoryInit ==
    /\ \/ /\ cat_in \in {Some(input) : input \in CategoryInputs}
          /\ file = None /\ parser = None
       \/ /\ cat_in = None
          /\ file \in Range(SampleFiles) /\ parser \in Parsers
    /\ cat_out = <<>>
    /\ hash_seed \in HashSeeds
    /\ now = 0
    /\ recs = <<>>
    /\ restored = None
    /\ BatchIdle /\ ScoreIdle /\ CallIdle

\* one call of _categorize_test
Categorize ==
    /\ cat_in # None
    /\ Len(cat_out) < MaxCalls
    /\ cat_out' = Append(cat_out, CategorizeTest(cat_in[1].filename, cat_in[1].directives,
                                                 cat_in[1].content))
    /\ UNCHANGED <<cat_in, hash_seed, now>>
    /\ UNCHANGED <<FileVars, BatchVars, ScoreVars, CallVars>>

CategoryNext == Categorize \/ Process

CategorySpec == CategoryInit /\ [][CategoryNext]_vars

(***************************************************************************)
(* ScoreSpec: _calculate_complexity_score called on arguments that grow    *)
(* by one item at a time.                                                  *)
(***************************************************************************)
ScoreOf(in) ==
    CalculateComplexityScore(in.directives, in.check_patterns, in.expected_errors,
                             in.ast_patterns, in.error_patterns)

ScoreInit ==
    /\ score_in \in {Some(in) : in \in ScoreInputs}
    /\ score_out = None
    /\ hash_seed \in HashSeeds
    /\ now = 0
    /\ FileIdle /\ BatchIdle /\ CategoryIdle /\ CallIdle

\* the call on the arguments in, the earlier call having returned
Rescore(in) ==
    /\ score_out # None
    /\ score_in' = Some(in)
    /\ score_out' = Some(ScoreOf(in))
    /\ UNCHANGED <<hash_seed, now>>
    /\ UNCHANGED <<FileVars, BatchVars, CategoryVars, CallVars>>

Calculate ==
    /\ score_out = None
    /\ score_out' = Some(ScoreOf(score_in[1]))
    /\ UNCHANGED <<score_in, hash_seed, now>>
    /\ UNCHANGED <<FileVars, BatchVars, CategoryVars, CallVars>>

AddDirective ==
    /\ Len(score_in[1].directives) < MaxCount
    /\ Rescore([score_in[1] EXCEPT !.directives =
                   Append(@, OpenMPDirective("for", <<>>, 1, 0, "#pragma omp for"))])

AddClause ==
    /\ score_in[1].directives # <<>>
    /\ Len(score_in[1].directives[1].clauses) < MaxCount
    /\ Rescore([score_in[1] EXCEPT !.directives[1].clauses = Append(@, "nowait")])

AddCheckPattern ==
    /\ Len(score_in[1].check_patterns) < MaxCount
    /\ Rescore([score_in[1] EXCEPT !.check_patterns = Append(@, "call void @f")])

AddExpectedError ==
    /\ Len(score_in[1].expected_errors) < MaxCount
    /\ Rescore([score_in[1] EXCEPT !.expected_errors = Append(@, "{{bad}}")])

AddFunctionDeclaration ==
    /\ "function_declarations" \in DOMAIN score_in[1].ast_patterns
    /\ Len(score_in[1].ast_patterns.function_declarations) < MaxCount
    /\ Rescore([score_in[1] EXCEPT !.ast_patterns.function_declarations =
                   Append(@, [name |-> "f", location |-> "1:1", return_type |-> "void",
                              parameters |-> <<>>, has_openmp |-> FALSE])])

AddParseError ==
    /\ Len(score_in[1].error_patterns.parse_errors) < MaxCount
    /\ Rescore([score_in[1] EXCEPT !.error_patterns.parse_errors =
                   Append(@, ParseError("other_error", "unused variable", 0, 0, "2"))])

AddErrorType ==
    /\ Cardinality(score_in[1].error_patterns.error_types) < MaxCount
    /\ \E t \in ErrorTypeNames \ score_in[1].error_patterns.error_types :
          Rescore([score_in[1] EXCEPT !.error_patterns.error_types = @ \cup {t}])

ScoreNext ==
    \/ Calculate
    \/ AddDirective
    \/ AddClause
    \/ AddCheckPattern
    \/ AddExpectedError
    \/ AddFunctionDeclaration
    \/ AddParseError
    \/ AddErrorType

ScoreSpec == ScoreInit /\ [][ScoreNext]_vars

(***************************************************************************)
(* Spec: analyzer.py, analyze_all_tests, one step per loop iteration.      *)
(***************************************************************************)
Init ==
    /\ pc = "start"
    /\ test_files = <<>>
    /\ idx = 0
    /\ successful_count = 0
    /\ failed_count = 0
    /\ returned = None
    /\ trace = <<>>
    /\ db = EmptyDatabase
    /\ hash_seed \in HashSeeds
    /\ now = 0
    /\ FileIdle /\ CategoryIdle /\ ScoreIdle /\ CallIdle

\* lines 33 to 42: the list is made; an empty list ends the call
Start ==
    /\ pc = "start"
    /\ \E base_dir \in BaseDirs :
          /\ test_files' = FindOpenmpTestFiles(base_dir)
          /\ IF test_files' = <<>>
             THEN pc' = "done" /\ returned' = Some(FALSE)
             ELSE pc' = "loop" /\ returned' = None
    /\ UNCHANGED <<idx, successful_count, failed_count, trace, db, hash_seed, now>>
    /\ UNCHANGED <<FileVars, CategoryVars, ScoreVars, CallVars>>

\* lines 46 to 65: the try block for a file of which process_test_file
\* makes pattern.  call says how the two calls end: both return, or an
\* exception leaves the one or the other; store_pattern commits, or rolls
\* back and returns False.
TryFile(pattern) ==
    \E call \in {"return", "raise"}, commit \in BOOLEAN :
        LET raised == call = "raise"
            stored == ~raised /\ pattern # None /\ commit
            outcome == IF raised THEN "exception"
                       ELSE IF pattern = None THEN "no pattern"
                       ELSE IF stored THEN "stored"
                       ELSE "not stored"
        IN /\ successful_count' = successful_count + (IF stored THEN 1 ELSE 0)
           /\ failed_count' = failed_count + (IF stored THEN 0 ELSE 1)
           /\ db' = IF stored THEN StorePattern(db, pattern[1]) ELSE db
           /\ trace' = Append(trace,
                              [file |-> test_files[idx + 1].path,
                               pattern |-> IF raised THEN None ELSE pattern,
                               outcome |-> outcome])

\* the loop body without its except clause: an exception ends the call
ProcessNextFileUnguarded ==
    /\ pc = "loop"
    /\ idx < Len(test_files)
    /\ \E f \in FileAtProcessing(test_files[idx + 1]), p \in BatchParsers :
          TryFile(ProcessTestFile(f, p, hash_seed, now))
    /\ idx' = idx + 1
    /\ now' = now + 1
    /\ IF trace'[idx + 1].outcome = "exception"
       THEN pc' = "done" /\ returned' = Some(FALSE)
       ELSE UNCHANGED <<pc, returned>>
    /\ UNCHANGED <<test_files, hash_seed>>
    /\ UNCHANGED <<FileVars, CategoryVars, ScoreVars, CallVars>>

\* lines 44 to 65: the loop body for the next file of the list
ProcessNextFile ==
    /\ pc = "loop"
    /\ idx < Len(test_files)
    /\ \E f \in FileAtProcessing(test_files[idx + 1]), p \in BatchParsers :
          TryFile(ProcessTestFile(f, p, hash_seed, now))
    /\ idx' = idx + 1
    /\ now' = now + 1
    /\ UNCHANGED <<test_files, pc, returned, hash_seed>>
    /\ UNCHANGED <<FileVars, CategoryVars, ScoreVars, CallVars>>

\* line 68 returning whether any file was counted, stored or not
FinishCountingFailures ==
    /\ pc = "loop"
    /\ idx = Len(test_files)
    /\ returned' = Some(successful_count + failed_count > 0)
    /\ pc' = "done"
    /\ UNCHANGED <<test_files, idx, successful_count, failed_count, trace, db,
                   hash_seed, now>>
    /\ UNCHANGED <<FileVars, CategoryVars, ScoreVars, CallVars>>

\* lines 67 and 68: the list is exhausted
Finish ==
    /\ pc = "loop"
    /\ idx = Len(test_files)
    /\ returned' = Some(successful_count > 0)
    /\ pc' = "done"
    /\ UNCHANGED <<test_files, idx, successful_count, failed_count, trace, db,
                   hash_seed, now>>
    /\ UNCHANGED <<FileVars, CategoryVars, ScoreVars, CallVars>>

Next == Start \/ ProcessNextFile \/ Finish

Spec == Init /\ [][Next]_vars

(***************************************************************************)
(* InterruptSpec: analyze_all_tests with the steps of store_pattern apart  *)
(* and the process ended from outside at any of them.  While store_pattern *)
(* runs, call_in is the record it was called with and call_out the         *)
(* database as its connection sees it once the statements are executed,    *)
(* which is the database of every connection once it has committed.        *)
(***************************************************************************)
\* lines 46 to 49: process_test_file is called on the next file and
\* store_pattern is entered; without a record, or with an exception, the
\* iteration ends
BeginFile ==
    /\ pc = "loop"
    /\ idx < Len(test_files)
    /\ \E f \in FileAtProcessing(test_files[idx + 1]), p \in BatchParsers,
          call \in {"return", "raise"} :
          LET pattern == ProcessTestFile(f, p, hash_seed, now)
          IN IF call = "raise" \/ pattern = None
             THEN /\ failed_count' = failed_count + 1
                  /\ trace' = Append(trace,
                                     [file |-> test_files[idx + 1].path,
                                      pattern |-> IF call = "raise" THEN None ELSE pattern,
                                      outcome |-> IF call = "raise" THEN "exception"
                                                  ELSE "no pattern"])
                  /\ idx' = idx + 1
                  /\ UNCHANGED <<pc, call_in, call_out>>
             ELSE /\ pc' = "storing"
                  /\ call_in' = pattern
                  /\ call_out' = None
                  /\ UNCHANGED <<failed_count, trace, idx>>
    /\ now' = now + 1
    /\ UNCHANGED <<test_files, successful_count, returned, db, hash_seed>>
    /\ UNCHANGED <<FileVars, CategoryVars, ScoreVars>>

\* storage.py lines 109 to 205: the statements of store_pattern are executed
\* in the transaction of its connection
ExecuteStatements ==
    /\ pc = "storing"
    /\ call_out = None
    /\ call_out' = Some(StorePattern(db, call_in[1]))
    /\ UNCHANGED <<call_in, hash_seed, now>>
    /\ UNCHANGED <<BatchVars, FileVars, CategoryVars, ScoreVars>>

\* the end of an iteration in which store_pattern was called
EndOfStore(stored) ==
    /\ successful_count' = successful_count + (IF stored THEN 1 ELSE 0)
    /\ failed_count' = failed_count + (IF stored THEN 0 ELSE 1)
    /\ trace' = Append(trace,
                       [file |-> test_files[idx + 1].path,
                        pattern |-> call_in,
                        outcome |-> IF stored THEN "stored" ELSE "not stored"])
    /\ idx' = idx + 1
    /\ pc' = "loop"
    /\ call_in' = None
    /\ call_out' = None
    /\ UNCHANGED <<test_files, returned, hash_seed, now>>
    /\ UNCHANGED <<FileVars, CategoryVars, ScoreVars>>

\* store_pattern returning True without having committed
CommitStoreInMemory ==
    /\ pc = "storing"
    /\ call_out # None
    /\ db' = db
    /\ EndOfStore(TRUE)

\* storage.py lines 207 to 209 and analyzer.py lines 50 and 51: the
\* transaction is committed and store_pattern returns True
CommitStore ==
    /\ pc = "storing"
    /\ call_out # None
    /\ db' = call_out[1]
    /\ EndOfStore(TRUE)

\* storage.py lines 211 to 213 and analyzer.py lines 52 to 54: an exception
\* in store_pattern; the transaction is not committed and False is returned
FailStore ==
    /\ pc = "storing"
    /\ db' = db
    /\ EndOfStore(FALSE)

\* the process is ended from outside: what a connection has not committed
\* is lost, what is committed stays
Interrupt ==
    /\ pc \in {"start", "loop", "storing"}
    /\ pc' = "interrupted"
    /\ call_out' = None
    /\ UNCHANGED <<test_files, idx, successful_count, failed_count, returned, trace, db>>
    /\ UNCHANGED <<call_in, hash_seed, now>>
    /\ UNCHANGED <<FileVars, CategoryVars, ScoreVars>>

InterruptNext ==
    Start \/ BeginFile \/ ExecuteStatements \/ CommitStore \/ FailStore \/ Finish \/ Interrupt

InterruptSpec == Init /\ [][InterruptNext]_vars

(***************************************************************************)
(* StoreSpec: up to MaxStores calls of store_pattern on one database, with *)
(* records of the same and of different files, and get_statistics between  *)
(* them.  trace has one entry per call of store_pattern.                   *)
(***************************************************************************)
MaxStores == 2

\* the files whose records are stored
StoredFiles == {SampleFiles[4], SampleFiles[5]}

StoreInit ==
    /\ hash_seed = "salt a"
    /\ now = 0
    /\ FileIdle /\ BatchIdle /\ CategoryIdle /\ ScoreIdle /\ CallIdle

\* store_pattern(pattern) on the record process_test_file makes of a file:
\* it commits and returns True, or rolls back and returns False
StoreRecord ==
    /\ Len(trace) < MaxStores
    /\ \E f \in StoredFiles, p \in BatchParsers, commit \in BOOLEAN :
          LET pattern == ProcessTestFile(f, p, hash_seed, now)
          IN /\ db' = IF commit THEN StorePattern(db, pattern[1]) ELSE db
             /\ trace' = Append(trace,
                                [file |-> f.path, pattern |-> pattern,
                                 outcome |-> IF commit THEN "stored" ELSE "not stored"])
    /\ now' = now + 1
    /\ call_out' = None
    /\ UNCHANGED <<test_files, idx, successful_count, failed_count, pc, returned>>
    /\ UNCHANGED <<call_in, hash_seed>>
    /\ UNCHANGED <<FileVars, CategoryVars, ScoreVars>>

\* get_statistics()
ReadStatistics ==
    /\ call_out = None
    /\ \E stats \in GetStatistics(db) : call_out' = Some(stats)
    /\ UNCHANGED <<call_in, hash_seed, now>>
    /\ UNCHANGED <<BatchVars, FileVars, CategoryVars, ScoreVars>>

StoreNext == StoreRecord \/ ReadStatistics

StoreSpec == StoreInit /\ [][StoreNext]_vars

(***************************************************************************)
(* StageSpec: _determine_compiler_stage called on a list of run commands.  *)
(***************************************************************************)
MaxCommands == 2

\* run commands as _extract_run_commands returns them
StageCommands ==
    {"%clang_cc1 -verify -fopenmp %s",
     "%clang_cc1 -fopenmp -fsyntax-only %s",
     "%clang_cc1 -fopenmp -ast-print %s",
     "%clang_cc1 -fopenmp -AST-DUMP %s",
     "%clang -fopenmp -emit-llvm %s -o -",
     "%clang -fopenmp -S %s -o - | FileCheck %s",
     "%clang_cc1 -fopenmp -fparse-all-comments %s",
     "%clang -fopenmp %s"}

StageInputs ==
    UNION {[1..n -> StageCommands] : n \in 0..MaxCommands}

StageInit ==
    /\ call_in \in {Some([run_commands |-> c, content |-> ""]) : c \in StageInputs}
    /\ call_out = None
    /\ hash_seed = "salt a"
    /\ now = 0
    /\ FileIdle /\ BatchIdle /\ CategoryIdle /\ ScoreIdle

\* the call of _determine_compiler_stage
DetermineStage ==
    /\ call_out = None
    /\ call_out' = Some(DetermineCompilerStage(call_in[1].run_commands, call_in[1].content))
    /\ UNCHANGED <<call_in, hash_seed, now>>
    /\ UNCHANGED <<FileVars, BatchVars, CategoryVars, ScoreVars>>

StageNext == DetermineStage

StageSpec == StageInit /\ [][StageNext]_vars

(***************************************************************************)
(* DirectiveSpec: _extract_openmp_directives called on a text.             *)
(***************************************************************************)
MaxLines == 2
MaxLead == 4

\* the lines the texts are made of
DirectiveLines ==
    {"#pragma omp parallel private(x)",
     "  #pragma omp for schedule(static) nowait",
     "#pragma  omp\ttarget",
     "#pragma omp",
     "#pragma omp ",
     "#pragma omp  ",
     "int x; // #pragma omp task",
     ""}

RECURSIVE JoinLines(_)
JoinLines(lines) ==
    IF lines = <<>> THEN ""
    ELSE IF Len(lines) = 1 THEN lines[1]
    ELSE lines[1] \o "\n" \o JoinLines(Tail(lines))

\* the texts: some lines, or MaxLead lines of comment and then some lines
DirectiveTexts ==
    {JoinLines([i \in 1..lead |-> "// comment"] \o lines) :
        lead \in {0, MaxLead},
        lines \in UNION {[1..n -> DirectiveLines] : n \in 1..MaxLines}}

DirectiveInit ==
    /\ call_in \in {Some([content |-> c]) : c \in DirectiveTexts}
    /\ call_out = None
    /\ hash_seed = "salt a"
    /\ now = 0
    /\ FileIdle /\ BatchIdle /\ CategoryIdle /\ ScoreIdle

\* the call of _extract_openmp_directives
ExtractDirectives ==
    /\ call_out = None
    /\ call_out' = Some(ExtractOpenmpDirectives(call_in[1].content))
    /\ UNCHANGED <<call_in, hash_seed, now>>
    /\ UNCHANGED <<FileVars, BatchVars, CategoryVars, ScoreVars>>

DirectiveNext == ExtractDirectives

DirectiveSpec == DirectiveInit /\ [][DirectiveNext]_vars

(***************************************************************************)
(* NegativeSpec: lines 50 to 60 of process_test_file,                      *)
(* _categorize_error_patterns and _extract_negative_test_characteristics,  *)
(* on a file name, a text and the parser's diagnostics.                    *)
(***************************************************************************)
NegativeFilenames ==
    {"a.c", "messages.c", "parallel_messages_syntax.c", "syntax_error.c",
     "semantic_diag.c", "bad.c", "Invalid_Syntax.c", "syntax.c"}

NegativeContents ==
    {"int x;\n",
     "int a; // expected-error: bad thing\nint b; // expected-error: bad\n",
     "int a;\nint b; // expected-error: bad\n",
     "// expected-warning: w\nint b;\n",
     "// EXPECTED-ERROR: x\nint b;\n"}

NegativeDiagnostics ==
    {[spelling |-> "expected ')'",
      location |-> Some([line |-> 1, column |-> 7]), severity |-> 3],
     [spelling |-> "use of undeclared identifier 'b'",
      location |-> Some([line |-> 2, column |-> 1]), severity |-> 3],
     [spelling |-> "unused variable",
      location |-> None, severity |-> 2]}

NegativeInputs ==
    {[file_name |-> f, content |-> c, parse_errors |-> MapSeq(d, DiagnosticToParseError)] :
        f \in NegativeFilenames, c \in NegativeContents,
        d \in UNION {[1..n -> NegativeDiagnostics] : n \in 0..MaxDiagnostics}}

NegativeInit ==
    /\ call_in \in {Some(in) : in \in NegativeInputs}
    /\ call_out = None
    /\ hash_seed = "salt a"
    /\ now = 0
    /\ FileIdle /\ BatchIdle /\ CategoryIdle /\ ScoreIdle

\* lines 50 to 60: the error patterns and the characteristics made of them
AnalyzeNegative(file_name, content, error_patterns, seed) ==
    [error_patterns |-> error_patterns,
     negative_test_info |->
         ExtractNegativeTestCharacteristics(file_name, content, error_patterns, seed)]

ExtractCharacteristics ==
    /\ call_out = None
    /\ call_out' = Some(AnalyzeNegative(
                         call_in[1].file_name, call_in[1].content,
                         CategorizeErrorPatterns(call_in[1].parse_errors,
                                                 ExtractExpectedErrors(call_in[1].content),
                                                 call_in[1].content),
                         hash_seed))
    /\ UNCHANGED <<call_in, hash_seed, now>>
    /\ UNCHANGED <<FileVars, BatchVars, CategoryVars, ScoreVars>>

NegativeNext == ExtractCharacteristics

NegativeSpec == NegativeInit /\ [][NegativeNext]_vars

(***************************************************************************)
(* DiagnosticSpec: _classify_diagnostic_type called on a message.          *)
(***************************************************************************)
MaxPhrases == 4

\* what the messages are made of
DiagnosticPhrases ==
    <<"Expected", "'('", "in OpenMP", "clause", "directive", "cannot contain",
      "does not refer to a value", "use of undeclared", "was not declared",
      "semantic", "incomplete type", "unused variable">>

DiagnosticMessages ==
    {Join(SelectSeq(DiagnosticPhrases, LAMBDA phrase : phrase \in S)) :
        S \in {T \in SUBSET Range(DiagnosticPhrases) : Cardinality(T) <= MaxPhrases}}

DiagnosticInit ==
    /\ call_in \in {Some([message |-> m]) : m \in DiagnosticMessages}
    /\ call_out = None
    /\ hash_seed = "salt a"
    /\ now = 0
    /\ FileIdle /\ BatchIdle /\ CategoryIdle /\ ScoreIdle

\* the call of _classify_diagnostic_type
ClassifyDiagnostic ==
    /\ call_out = None
    /\ call_out' = Some(ClassifyDiagnosticType(call_in[1].message))
    /\ UNCHANGED <<call_in, hash_seed, now>>
    /\ UNCHANGED <<FileVars, BatchVars, CategoryVars, ScoreVars>>

DiagnosticNext == ClassifyDiagnostic

DiagnosticSpec == DiagnosticInit /\ [][DiagnosticNext]_vars

(***************************************************************************)
(* TraverseSpec: extract_patterns called on a parsed tree.  The trees are  *)
(* all shapes of up to MaxNodes nodes; a shape is the sequence of the      *)
(* shapes of the children.  The spelling of a node is its path from the    *)
(* root, one digit per level, and its line is its depth.                   *)
(***************************************************************************)
MaxNodes == 5

\* the sequences of shapes of n nodes together
RECURSIVE Forests(_)
Forests(n) ==
    IF n = 0 THEN {<<>>}
    ELSE UNION {{<<first>> \o rest : first \in Forests(k - 1), rest \in Forests(n - k)} :
                   k \in 1..n}

TreeShapes == UNION {Forests(n - 1) : n \in 1..MaxNodes}

DeclarationKinds == {"FUNCTION_DECL", "VAR_DECL", "COMPOUND_STMT"}

\* the type spelling of a node of a kind, and the kind of the children of one
TypeOfKind(kind) ==
    IF kind \in {"PARM_DECL", "VAR_DECL"} THEN "int"
    ELSE IF kind = "FUNCTION_DECL" THEN "void" ELSE ""

KindBelow(kind) ==
    IF kind \in {"FUNCTION_DECL", "VAR_DECL"} THEN "PARM_DECL" ELSE "DECL_STMT"

\* the tree of a shape: the root is the translation unit, a node none of
\* whose children has children is of the kind decl, the children of a
\* function or variable declaration are its parameters
RECURSIVE TreeOf(_, _, _, _)
TreeOf(shape, path, parent, decl) ==
    LET kind == IF path = "" THEN "TRANSLATION_UNIT"
                ELSE IF parent \in {"FUNCTION_DECL", "VAR_DECL"} THEN "PARM_DECL"
                ELSE IF \A i \in 1..Len(shape) : shape[i] = <<>> THEN decl
                ELSE "COMPOUND_STMT"
    IN Node(kind, path, Len(path), 1, "none", TypeOfKind(kind), parent, None, <<>>,
            [i \in 1..Len(shape) |->
                TreeOf(shape[i], path \o IntToStr(i - 1), kind, decl)])

TraverseTrees ==
    {TreeOf(shape, "", "", decl) : shape \in TreeShapes, decl \in DeclarationKinds}

TraverseInit ==
    /\ call_in \in {Some([tree |-> t]) : t \in TraverseTrees}
    /\ call_out = None
    /\ hash_seed = "salt a"
    /\ now = 0
    /\ FileIdle /\ BatchIdle /\ CategoryIdle /\ ScoreIdle

\* the call of extract_patterns, the parser giving the tree without diagnostics
Traverse ==
    /\ call_out = None
    /\ call_out' = Some(ExtractPatterns([mode |-> "ok", diagnostics |-> <<>>,
                                         tree |-> call_in[1].tree]))
    /\ UNCHANGED <<call_in, hash_seed, now>>
    /\ UNCHANGED <<FileVars, BatchVars, CategoryVars, ScoreVars>>

TraverseNext == Traverse

TraverseSpec == TraverseInit /\ [][TraverseNext]_vars

(***************************************************************************)
(* DepthSpec: _traverse_ast on deep trees, one call of it per step.  The   *)
(* tree is a chain of nested blocks below the translation unit, around a   *)
(* declaration that lies DepthLimit - 1 to DepthLimit + MaxOver levels     *)
(* below the root and has up to MaxParams children.  A node is known by    *)
(* its height above the children of the declaration, which is its spelling *)
(* and its line.  As with get_children, the children of a node are cursors *)
(* and a cursor is expanded to a node when _traverse_ast is called on it.  *)
(* call_in is the tree: the depth of the declaration, its kind and the     *)
(* number of its children.  call_out holds the patterns and the stack of   *)
(* the calls of _traverse_ast that are in their loop: for each the         *)
(* children still to traverse and the depth they are traversed at.         *)
(***************************************************************************)
MaxOver == 2
MaxParams == 2

DeepTrees ==
    [depth : (DepthLimit - 1)..(DepthLimit + MaxOver),
     declaration : DeclarationKinds,
     children : 0..MaxParams]

\* the kind of the nodes of a height, the root being at height depth + 1
KindAtHeight(tree, height) ==
    IF height = tree.depth + 1 THEN "TRANSLATION_UNIT"
    ELSE IF height = 1 THEN tree.declaration
    ELSE IF height = 0 THEN KindBelow(tree.declaration)
    ELSE "COMPOUND_STMT"

Cursor(tree, height, column) ==
    [kind |-> KindAtHeight(tree, height), spelling |-> IntToStr(height),
     type |-> TypeOfKind(KindAtHeight(tree, height)), line |-> height, column |-> column]

\* cursor.get_children() and the node of a cursor
ChildCursors(tree, cursor) ==
    IF cursor.line = 0 THEN <<>>
    ELSE IF cursor.line = 1 THEN [i \in 1..tree.children |-> Cursor(tree, 0, i)]
    ELSE <<Cursor(tree, cursor.line - 1, 1)>>

Expand(tree, cursor) ==
    Node(cursor.kind, cursor.spelling, cursor.line, cursor.column, "none", cursor.type,
         IF cursor.line > tree.depth THEN "" ELSE KindAtHeight(tree, cursor.line + 1),
         None, <<>>, ChildCursors(tree, cursor))

EmptyPatterns ==
    [ast_nodes |-> <<>>, openmp_directives |-> <<>>, function_declarations |-> <<>>,
     variable_declarations |-> <<>>, includes |-> <<>>, macros |-> <<>>,
     parse_errors |-> <<>>]

\* extract_patterns has made the patterns and is to call _traverse_ast on
\* the cursor of the translation unit
DepthInit ==
    /\ call_in \in {Some(t) : t \in DeepTrees}
    /\ call_out = Some([patterns |-> EmptyPatterns,
                        stack |-> <<[pending |-> <<Cursor(call_in[1], call_in[1].depth + 1, 1)>>,
                                     depth |-> 0]>>])
    /\ hash_seed = "salt a"
    /\ now = 0
    /\ FileIdle /\ BatchIdle /\ CategoryIdle /\ ScoreIdle

\* the loop of the innermost call has no child left, and the call returns
ReturnFromCall ==
    /\ call_out[1].stack # <<>>
    /\ call_out[1].stack[Len(call_out[1].stack)].pending = <<>>
    /\ call_out' = Some([call_out[1] EXCEPT
                            !.stack = SubSeq(@, 1, Len(@) - 1)])
    /\ UNCHANGED <<call_in, hash_seed, now>>
    /\ UNCHANGED <<FileVars, BatchVars, CategoryVars, ScoreVars>>

\* the innermost loop calls _traverse_ast on its next child; the call
\* returns at once or reaches its own loop
CallOnChild ==
    /\ call_out[1].stack # <<>>
    /\ call_out[1].stack[Len(call_out[1].stack)].pending # <<>>
    /\ LET stack == call_out[1].stack
           top == stack[Len(stack)]
           child == Expand(call_in[1], Head(top.pending))
           visited == VisitNode(child, call_out[1].patterns, top.depth)
           waiting == [stack EXCEPT ![Len(stack)].pending = Tail(@)]
       IN call_out' = Some([patterns |-> visited.patterns,
                            stack |-> IF visited.descend
                                      THEN Append(waiting, [pending |-> child.children,
                                                            depth |-> top.depth + 1])
                                      ELSE waiting])
    /\ UNCHANGED <<call_in, hash_seed, now>>
    /\ UNCHANGED <<FileVars, BatchVars, CategoryVars, ScoreVars>>

DepthNext == ReturnFromCall \/ CallOnChild

DepthSpec == DepthInit /\ [][DepthNext]_vars

(***************************************************************************)
(* TriggerSpec: lines 50 to 60 of process_test_file on texts of up to      *)
(* MaxLines lines with pragmas, annotations and comments, the last line    *)
(* ending with a line feed or not.                                         *)
(***************************************************************************)
TriggerLines ==
    {"#pragma omp parallel",
     "#PRAGMA OMP for nowait",
     "#pragma omp target // expected-error: \"t\"",
     "int x; // expected-error: \"bad\"",
     "int y; // expected-error {{bad}}",
     "// expected-warning: \"w\"",
     "// ERROR: e",
     "// FIXME: f",
     "int z;"}

TriggerTexts ==
    {JoinLines(lines) \o end :
        lines \in UNION {[1..n -> TriggerLines] : n \in 1..MaxLines},
        end \in {"", "\n"}}

TriggerInit ==
    /\ call_in \in {Some([file_name |-> "a.c", content |-> c, parse_errors |-> <<>>]) :
                       c \in TriggerTexts}
    /\ call_out = None
    /\ hash_seed = "salt a"
    /\ now = 0
    /\ FileIdle /\ BatchIdle /\ CategoryIdle /\ ScoreIdle

TriggerNext == ExtractCharacteristics

TriggerSpec == TriggerInit /\ [][TriggerNext]_vars

(***************************************************************************)
(* RuntimeSpec: _extract_runtime_calls called on up to MaxPatterns check   *)
(* patterns, under either hash salt.                                       *)
(***************************************************************************)
MaxPatterns == 2

RuntimePatterns ==
    {"call void @__kmpc_fork_call(i32 @omp_get_num)",
     "@omp_get_num_threads and @__kmpc_barrier",
     "call @__kmpc_barrier(",
     "call @omp_get_num_threads()",
     "@omp_get_num2(",
     "@__kmpc_",
     "ret void"}

RuntimeInit ==
    /\ call_in \in {Some([check_patterns |-> c]) :
                       c \in UNION {[1..n -> RuntimePatterns] : n \in 1..MaxPatterns}}
    /\ call_out = None
    /\ hash_seed \in HashSeeds
    /\ now = 0
    /\ FileIdle /\ BatchIdle /\ CategoryIdle /\ ScoreIdle

\* the call of _extract_runtime_calls
ExtractRuntimeCalls ==
    /\ call_out = None
    /\ call_out' = Some(ListOfSet(RuntimeCallSet(call_in[1].check_patterns), hash_seed))
    /\ UNCHANGED <<call_in, hash_seed, now>>
    /\ UNCHANGED <<FileVars, BatchVars, CategoryVars, ScoreVars>>

RuntimeNext == ExtractRuntimeCalls

RuntimeSpec == RuntimeInit /\ [][RuntimeNext]_vars

(***************************************************************************)
(* The properties.                                                         *)
(***************************************************************************)
\* the record of call i of process_test_file, which returned one
Rec(i) == recs[i][1]

\* C1, as stated: process_test_file returns a record for every file that
\* exists and can be read, whatever the parser does, and returns none only
\* when the file cannot be read.
C1_RecordForEveryReadableFile ==
    \A i \in 1..Len(recs) : (recs[i] # None) <=> (file.exists /\ file.readable)

\* C1: a file that exists and was read, and is empty, gets no record
C1_EmptyFileRefused ==
    /\ file.exists /\ file.readable /\ file.content = ""
    /\ recs # <<>>
    /\ recs[1] = None

\* C2: a failure on one file never aborts the batch: the iterations done are
\* those of the first files of the list, one each and in the order of the
\* list, every one counted as a success or as a failure, and the call ends
\* only when every file of the list has had its iteration.
C2_EveryFileOnceInListOrder ==
    /\ idx = Len(trace)
    /\ Len(trace) <= Len(test_files)
    /\ \A i \in 1..Len(trace) : trace[i].file = test_files[i].path
    /\ successful_count + failed_count = Len(trace)
    /\ pc = "done" => Len(trace) = Len(test_files)

\* C2: the call has ended, an exception left the first file's iteration and
\* the second file was processed and stored all the same
C2_BatchContinuedAfterFailure ==
    /\ pc = "done"
    /\ Len(trace) = 2
    /\ trace[1].outcome = "exception"
    /\ trace[2].outcome = "stored"

\* C3, as stated: analyze_all_tests returns True whenever process_test_file
\* produced a record for at least one file of the batch.
C3_TrueWheneverARecordWasProduced ==
    (pc = "done" /\ \E i \in 1..Len(trace) : trace[i].pattern # None)
        => returned = Some(TRUE)

\* C3, amended: analyze_all_tests returns True exactly when the record of at
\* least one file was produced and store_pattern stored it.
C3_TrueExactlyWhenARecordWasStored ==
    pc = "done" =>
        returned = Some(\E i \in 1..Len(trace) : trace[i].outcome = "stored")

\* C3: the call has returned False although a record was produced, which
\* store_pattern did not store
C3_ProducedButNotStored ==
    /\ pc = "done"
    /\ returned = Some(FALSE)
    /\ \E i \in 1..Len(trace) :
          trace[i].pattern # None /\ trace[i].outcome = "not stored"

\* C4: from_dict(to_dict(r)) equals r in every field, and so does
\* from_dict(json.loads(json.dumps(to_dict(r)))).
C4_RoundTripRestoresTheRecord ==
    restored # None =>
        /\ restored[1].direct = Some(restored[1].of)
        /\ restored[1].stored = Some(restored[1].of)

\* C4: a record whose nested lists all have members has made the round trip
C4_NestedRecordRestored ==
    /\ restored # None
    /\ restored[1].of.openmp_directives # <<>>
    /\ restored[1].of.ast_nodes # <<>>
    /\ restored[1].of.parse_errors # <<>>
    /\ restored[1].of.expected_error_patterns # <<>>
    /\ restored[1].of.negative_test_characteristics.is_negative_test

\* C5, as stated: two runs of process_test_file on the same unchanged file
\* with the same parser output yield records equal in every field, the lists
\* compared in order, except created_timestamp.
C5_RunsDifferOnlyInTimestamp ==
    \A i, j \in 1..Len(recs) :
        (recs[i] # None /\ recs[j] # None) =>
            [Rec(i) EXCEPT !.created_timestamp = ""]
                = [Rec(j) EXCEPT !.created_timestamp = ""]

\* C5: two runs, in two processes, have listed the same compiler flags in
\* different orders
C5_FlagOrderDiffers ==
    /\ Len(recs) = 2
    /\ recs[1] # None /\ recs[2] # None
    /\ Range(Rec(1).compiler_flags) = Range(Rec(2).compiler_flags)
    /\ Rec(1).compiler_flags # Rec(2).compiler_flags

\* C6: the complexity score lies in 0..10, and it does not decrease when one
\* of the inputs of _calculate_complexity_score gets one more item (a
\* directive, a clause, a check pattern, an expected error, a function
\* declaration, a diagnostic, a diagnostic kind) and the others stay.
C6_ScoreBoundedAndMonotone ==
    /\ [](score_out # None => score_out[1] \in 0..10)
    /\ [][(score_out # None /\ score_out' # None) => score_out'[1] >= score_out[1]]_vars

\* C6: the score is at its cap for inputs whose sum exceeds it
C6_ScoreCapped ==
    /\ score_out = Some(10)
    /\ Len(score_in[1].directives) >= 2
    /\ Len(score_in[1].check_patterns) >= 2
    /\ Len(score_in[1].expected_errors) >= 2
    /\ score_in[1].error_patterns.parse_errors # <<>>
    /\ score_in[1].error_patterns.error_types # {}

\* the sum of C7 for a record
WeightedSum(r) ==
    2 * Len(r.openmp_directives)
    + SumClauses(r.openmp_directives)
    + Len(r.check_patterns)
    + 2 * Len(r.expected_errors)
    + (Len(r.function_declarations) \div 2)
    + Len(r.parse_errors)
    + Cardinality(Range(r.error_types))

\* C7: the complexity score of a record is min(10, 2D + C + K + 2E +
\* (F div 2) + P + T) of its directives, clauses, check patterns, expected
\* errors, function declarations, diagnostics and diagnostic kinds, and F, P
\* and T are 0 when the parser raised or returned no translation unit.
C7_ScoreIsTheCappedSum ==
    \A i \in 1..Len(recs) :
        recs[i] # None =>
            /\ Rec(i).complexity_score
                  = IF WeightedSum(Rec(i)) < 10 THEN WeightedSum(Rec(i)) ELSE 10
            /\ parser.mode \in {"raise", "none"} =>
                  /\ Rec(i).function_declarations = <<>>
                  /\ Rec(i).parse_errors = <<>>
                  /\ Rec(i).error_types = <<>>

\* C7: a record below the cap whose directive, clause, expected error and
\* function declarations all count
C7_ScoreBelowCap ==
    \E i \in 1..Len(recs) :
        /\ recs[i] # None
        /\ Rec(i).complexity_score = 6
        /\ Rec(i).openmp_directives # <<>>
        /\ Rec(i).expected_errors # <<>>
        /\ Len(Rec(i).function_declarations) = 2

Priority == <<"PARALLEL", "WORKSHARING", "TARGET", "SYNCHRONIZATION", "SIMD", "TASK">>

\* category Priority[k] is the first whose condition holds, of the conditions
\* holds[1], holds[2], ... of the categories in their order
FirstToHold(k, holds) == holds[k] /\ \A j \in 1..(k - 1) : ~holds[j]

\* C8, as stated: a category is returned exactly when one of its keywords
\* occurs in the lower-cased file name, in a lower-cased directive name or in
\* the lower-cased text, and this holds of no earlier category.
C8_ThreeSignalsPerCategory ==
    LET holds == [k \in 1..Len(Priority) |->
                    ThreeSignalCondition(Priority[k], cat_in[1].filename,
                                         cat_in[1].directives, cat_in[1].content)]
    IN \A i \in 1..Len(cat_out) : \A k \in 1..Len(Priority) :
           cat_out[i] = Category(Priority[k]) <=> FirstToHold(k, holds)

\* The signals each category has: the keywords looked for in the file name,
\* those looked for in each directive name, the directive names looked for
\* as they are, and the keywords looked for in the text.
InFilename ==
    [PARALLEL |-> {"parallel"}, WORKSHARING |-> {"for", "sections"},
     TARGET |-> {"target"}, SYNCHRONIZATION |-> {"atomic", "critical"},
     SIMD |-> {"simd"}, TASK |-> {"task"}]
InDirectiveName ==
    [PARALLEL |-> {"parallel"}, WORKSHARING |-> {},
     TARGET |-> {"target"}, SYNCHRONIZATION |-> {},
     SIMD |-> {"simd"}, TASK |-> {"task"}]
WholeDirectiveName ==
    [PARALLEL |-> {}, WORKSHARING |-> {"for", "sections", "single"},
     TARGET |-> {}, SYNCHRONIZATION |-> {"atomic", "critical", "barrier"},
     SIMD |-> {}, TASK |-> {}]
InText ==
    [PARALLEL |-> {"parallel"}, WORKSHARING |-> {},
     TARGET |-> {}, SYNCHRONIZATION |-> {},
     SIMD |-> {}, TASK |-> {}]

SignalsOf(c, filename, directives, content) ==
    \/ \E keyword \in InFilename[c] : Contains(keyword, Lower(filename))
    \/ \E i \in 1..Len(directives) :
          \/ \E keyword \in InDirectiveName[c] :
                Contains(keyword, Lower(directives[i].name))
          \/ Lower(directives[i].name) \in WholeDirectiveName[c]
    \/ \E keyword \in InText[c] : Contains(keyword, Lower(content))

\* C8, amended: a category is returned exactly when one of its signals is
\* present and none of an earlier category is.  The file name is searched
\* for parallel; for, sections; target; atomic, critical; simd; task.  The
\* directive names are searched for parallel, target, simd and task, and
\* compared as a whole with for, sections, single and with atomic, critical,
\* barrier.  The text is searched for parallel only.
C8_SignalsOfEachCategory ==
    LET holds == [k \in 1..Len(Priority) |->
                    SignalsOf(Priority[k], cat_in[1].filename,
                              cat_in[1].directives, cat_in[1].content)]
    IN \A i \in 1..Len(cat_out) : \A k \in 1..Len(Priority) :
           cat_out[i] = Category(Priority[k]) <=> FirstToHold(k, holds)

\* C8: the text names for, single, target, critical, simd and task, neither
\* the file name nor a directive does, and the category is GENERAL
C8_TextAloneGivesGeneral ==
    /\ cat_in # None
    /\ cat_in[1].filename = "a.c"
    /\ cat_in[1].directives = <<>>
    /\ Contains("target", Lower(cat_in[1].content))
    /\ cat_out # <<>>
    /\ cat_out[1] = Category("GENERAL")

\* C9: when the conditions of two categories both hold, the one earlier in
\* PARALLEL, WORKSHARING, TARGET, SYNCHRONIZATION, SIMD, TASK is returned:
\* the result is the first category of that order whose condition holds.
C9_FirstInPriorityWins ==
    LET holds == [k \in 1..Len(Priority) |->
                    CategoryCondition(Priority[k], cat_in[1].filename,
                                      cat_in[1].directives, cat_in[1].content)]
    IN \A i \in 1..Len(cat_out) : \A k \in 1..Len(Priority) :
           FirstToHold(k, holds) => cat_out[i] = Category(Priority[k])

\* C9: the conditions of WORKSHARING and of TARGET both hold, and
\* WORKSHARING is returned
C9_WorksharingBeforeTarget ==
    /\ cat_in # None
    /\ cat_out # <<>>
    /\ CategoryCondition("WORKSHARING", cat_in[1].filename, cat_in[1].directives,
                         cat_in[1].content)
    /\ CategoryCondition("TARGET", cat_in[1].filename, cat_in[1].directives,
                         cat_in[1].content)
    /\ cat_out[1] = Category("WORKSHARING")

\* C10: every call of _categorize_test returns a member of TestCategory,
\* GENERAL exactly when the condition of no category holds, and the same
\* value as every other call on the same arguments; every record carries a
\* member of CompilerStage and a member of TestCategory.
C10_OneCategoryAlways ==
    /\ LET none == \A k \in 1..Len(Priority) :
                       ~CategoryCondition(Priority[k], cat_in[1].filename,
                                          cat_in[1].directives, cat_in[1].content)
       IN \A i \in 1..Len(cat_out) :
              /\ cat_out[i] \in TestCategory
              /\ cat_out[i] = cat_out[1]
              /\ cat_out[i] = Category("GENERAL") <=> none
    /\ \A i \in 1..Len(recs) :
          recs[i] # None =>
              /\ Rec(i).compiler_stage \in CompilerStage
              /\ Rec(i).test_category \in TestCategory

\* C10: two calls on arguments of which no condition holds have both
\* returned GENERAL
C10_GeneralTwice ==
    /\ cat_in # None
    /\ Len(cat_out) = 2
    /\ cat_out[1] = Category("GENERAL")
    /\ cat_out[2] = Category("GENERAL")

\* the rules of the compiler stage in their order: the stage and the keywords
\* looked for in the joined run-command text
StageRules ==
    <<[stage |-> "SEMA", keywords |-> {"-fsyntax-only", "-verify"}],
      [stage |-> "AST_PRINT", keywords |-> {"-ast-print", "-ast-dump"}],
      [stage |-> "CODEGEN", keywords |-> {"-emit-llvm", "filecheck"}]>>

\* C11: _determine_compiler_stage returns the stage of the first rule, in the
\* order SEMA, AST_PRINT, CODEGEN, one of whose keywords occurs in the
\* lower-cased run commands joined by spaces; when there is none it returns
\* PARSE if some run command contains "parse", and UNKNOWN otherwise, so
\* UNKNOWN when there is no run command.
C11_StageOfFirstRule ==
    call_out # None =>
        LET run_commands == call_in[1].run_commands
            run_text == Lower(Join(run_commands))
            fires == [k \in 1..Len(StageRules) |->
                         \E keyword \in StageRules[k].keywords : Contains(keyword, run_text)]
            parse == \E i \in 1..Len(run_commands) :
                        Contains("parse", Lower(run_commands[i]))
        IN /\ \A k \in 1..Len(StageRules) :
                  (fires[k] /\ \A j \in 1..(k - 1) : ~fires[j])
                      => call_out[1] = Stage(StageRules[k].stage)
           /\ (\A k \in 1..Len(StageRules) : ~fires[k])
                  => call_out[1] = Stage(IF parse THEN "PARSE" ELSE "UNKNOWN")
           /\ run_commands = <<>> => call_out[1] = Stage("UNKNOWN")

\* C11: a -verify command after an -emit-llvm command: the stage is SEMA
C11_SemaBeforeCodegen ==
    /\ call_out = Some(Stage("SEMA"))
    /\ Len(call_in[1].run_commands) = 2
    /\ Contains("-emit-llvm", call_in[1].run_commands[1])
    /\ Contains("-verify", call_in[1].run_commands[2])

\* the directives of call_out that stand on line i
DirectivesOfLine(i) == SelectSeq(call_out[1], LAMBDA d : d.line_number = i)

\* C12, as stated: every line that consists of #pragma and omp and no token
\* after them, whatever white space surrounds them, yields a Directive with
\* name "" and no clauses; none is dropped.
C12_BarePragmaKept ==
    call_out # None =>
        LET lines == SplitLines(call_in[1].content)
        IN \A i \in 1..Len(lines) :
               Split(lines[i]) = <<"#pragma", "omp">> =>
                   \E k \in 1..Len(call_out[1]) :
                       /\ call_out[1][k].line_number = i
                       /\ call_out[1][k].name = ""
                       /\ call_out[1][k].clauses = <<>>

\* C12: the text is the line #pragma omp and no directive is returned
C12_BarePragmaDropped ==
    /\ call_in = Some([content |-> "#pragma omp"])
    /\ call_out = Some(<<>>)

\* C14: _extract_openmp_directives returns its directives in increasing line
\* order, at most one per line, each with the number of a line of the text
\* (1 <= line_number <= number of lines), which is its pragma line.
C14_DirectivesInLineOrder ==
    call_out # None =>
        LET lines == SplitLines(call_in[1].content)
            out == call_out[1]
        IN /\ \A k \in 1..Len(out) :
                  /\ out[k].line_number \in 1..Len(lines)
                  /\ out[k].full_text = Strip(lines[out[k].line_number])
                  /\ PragmaMatch(lines[out[k].line_number]) # None
           /\ \A k \in 1..(Len(out) - 1) : out[k].line_number < out[k + 1].line_number

\* C14: two directives returned, of the first line and of the second
C14_TwoDirectives ==
    /\ call_out # None
    /\ Len(call_out[1]) = 2
    /\ call_out[1][1].line_number = 1
    /\ call_out[1][2].line_number = 2
    /\ call_out[1][1].name # call_out[1][2].name

\* C15: a line made of #pragma, omp, a name and k >= 0 further tokens,
\* indented or not, yields exactly one Directive: its name is the name, its
\* clauses are the further tokens in their order, as split at white space,
\* and its line_number is the number of the line.
C15_NameAndClausesOfLine ==
    call_out # None =>
        LET lines == SplitLines(call_in[1].content)
        IN \A i \in 1..Len(lines) :
               LET tokens == Split(lines[i])
               IN (Len(tokens) >= 3 /\ tokens[1] = "#pragma" /\ tokens[2] = "omp") =>
                      /\ Len(DirectivesOfLine(i)) = 1
                      /\ DirectivesOfLine(i)[1].name = tokens[3]
                      /\ DirectivesOfLine(i)[1].clauses = SubSeq(tokens, 4, Len(tokens))

\* C15: #pragma omp parallel private(x) on line 5 has given the directive
\* parallel with the clause private(x) and line 5
C15_ParallelOnLineFive ==
    /\ call_out # None
    /\ Len(SplitLines(call_in[1].content)) = 5
    /\ SplitLines(call_in[1].content)[5] = "#pragma omp parallel private(x)"
    /\ Len(call_out[1]) = 1
    /\ call_out[1][1].name = "parallel"
    /\ call_out[1][1].clauses = <<"private(x)">>
    /\ call_out[1][1].line_number = 5

\* the directives the tree-token scan of extract_patterns finds
TreeDirectives == Get(ExtractPatterns(parser), "openmp_directives", <<>>)

\* C13, as stated: a pragma the tree-token scan finds on a line where the line
\* scan of the text finds none is in the record's directive list, with column
\* -1; the directives the line scan finds have the index of #pragma in their
\* line as column.
C13_TreePragmasInRecord ==
    \A i \in 1..Len(recs) :
        recs[i] # None =>
            LET lines == SplitLines(file.content)
                found == Rec(i).openmp_directives
            IN /\ \A t \in 1..Len(TreeDirectives) :
                      (\/ TreeDirectives[t].line_number \notin 1..Len(lines)
                       \/ PragmaMatch(lines[TreeDirectives[t].line_number]) = None) =>
                          \E k \in 1..Len(found) :
                              /\ found[k].name = TreeDirectives[t].name
                              /\ found[k].clauses = TreeDirectives[t].clauses
                              /\ found[k].column_number = -1
               /\ \A k \in 1..Len(found) :
                      \/ found[k].column_number = -1
                      \/ found[k].column_number
                            = Find("#pragma", lines[found[k].line_number])

\* C13: the tree-token scan has found # pragma omp for nowait on line 2 of
\* spaced.c, the line scan has not, and the record has no directive
C13_TreePragmaNotInRecord ==
    /\ file.name = "spaced.c"
    /\ recs # <<>>
    /\ recs[1] # None
    /\ Len(TreeDirectives) = 1
    /\ TreeDirectives[1].name = "for"
    /\ TreeDirectives[1].line_number = 2
    /\ Rec(1).openmp_directives = <<>>

\* the text has one of the two markers of a negative test
HasExpectedText(content) ==
    Contains("expected-error", content) \/ Contains("expected-warning", content)

\* C16, as stated: is_negative_test is true exactly when the file name
\* contains one of messages, error, warn, diag, negative, invalid, bad, fail,
\* wrong, or the text contains expected-error or expected-warning.
C16_NegativeByNameOrText ==
    call_out # None =>
        (call_out[1].negative_test_info.is_negative_test
            <=> \/ \E indicator \in NegativeIndicators :
                      Contains(indicator, call_in[1].file_name)
                \/ HasExpectedText(call_in[1].content))

\* C16, amended: is_negative_test is true exactly when the lower-cased file
\* name contains one of those nine words, or the text contains
\* expected-error or expected-warning as written, in lower case; the file
\* name alone suffices.
C16_NegativeByLowerCasedNameOrText ==
    call_out # None =>
        (call_out[1].negative_test_info.is_negative_test
            <=> \/ \E indicator \in NegativeIndicators :
                      Contains(indicator, Lower(call_in[1].file_name))
                \/ HasExpectedText(call_in[1].content))

\* C16: Invalid_Syntax.c, whose name has none of the words as written and
\* whose text has no marker, is a negative test
C16_NegativeByCapitalisedName ==
    /\ call_out # None
    /\ call_in[1].file_name = "Invalid_Syntax.c"
    /\ ~HasExpectedText(call_in[1].content)
    /\ call_out[1].negative_test_info.is_negative_test

\* the strategy of a file name: the first of the words it contains
StrategyOf(name) ==
    IF Contains("messages", name) THEN "error_message_validation"
    ELSE IF Contains("syntax", name) THEN "syntax_validation"
    ELSE IF Contains("semantic", name) THEN "semantic_validation"
    ELSE "general_error_testing"

\* C17, as stated: error_testing_strategy is set exactly when
\* is_negative_test is true, and it is then the strategy of the first of
\* messages, syntax, semantic that the file name contains, and
\* general_error_testing when it contains none.
C17_StrategyOfFileName ==
    call_out # None =>
        LET info == call_out[1].negative_test_info
        IN /\ info.error_testing_strategy # None <=> info.is_negative_test
           /\ info.is_negative_test =>
                  info.error_testing_strategy = Some(StrategyOf(call_in[1].file_name))

\* C17, amended: error_testing_strategy is set exactly when is_negative_test
\* is true, and it is then the strategy of the first of messages, syntax,
\* semantic that the lower-cased file name contains, and
\* general_error_testing when it contains none.
C17_StrategyOfLowerCasedFileName ==
    call_out # None =>
        LET info == call_out[1].negative_test_info
        IN /\ info.error_testing_strategy # None <=> info.is_negative_test
           /\ info.is_negative_test =>
                  info.error_testing_strategy
                      = Some(StrategyOf(Lower(call_in[1].file_name)))

\* C17: Invalid_Syntax.c with an expected error in its text has the
\* strategy syntax_validation
C17_SyntaxOfCapitalisedName ==
    /\ call_out # None
    /\ call_in[1].file_name = "Invalid_Syntax.c"
    /\ Contains("expected-error", call_in[1].content)
    /\ call_out[1].negative_test_info.error_testing_strategy = Some("syntax_validation")

\* how often v occurs in the list xs
Count(xs, v) == Cardinality({i \in 1..Len(xs) : xs[i] = v})

\* the lines of a list of expected patterns or of parse errors
LinesOf(xs) == {xs[i].line_number : i \in 1..Len(xs)}

\* C18, as stated: in the correlation map of a negative test, each line with
\* expected patterns and parse errors has one entry in matched_errors, with
\* all the messages of the line, and each of its expected patterns is the
\* expected of that entry; unmatched_expected has the expected patterns of
\* the lines without parse error, each as often as it occurs there;
\* unexpected_errors has the messages of the lines without expected pattern,
\* each as often as it occurs there; nothing else is in the three lists.
C18_CorrelationPartitionsLines ==
    (call_out # None /\ call_out[1].negative_test_info.is_negative_test) =>
        LET map == call_out[1].negative_test_info.expected_vs_actual_errors
            expected == call_out[1].error_patterns.expected_patterns
            actual == call_out[1].error_patterns.parse_errors
            both == LinesOf(expected) \cap LinesOf(actual)
            at(line) == SelectSeq(actual, LAMBDA e : e.line_number = line)
        IN /\ \A line \in both :
                  Cardinality({k \in 1..Len(map.matched_errors) :
                                  map.matched_errors[k].line = line}) = 1
           /\ \A k \in 1..Len(map.matched_errors) :
                  /\ map.matched_errors[k].line \in both
                  /\ map.matched_errors[k].actual
                        = [i \in 1..Len(at(map.matched_errors[k].line)) |->
                              at(map.matched_errors[k].line)[i].message]
           /\ \A i \in 1..Len(expected) :
                  expected[i].line_number \in both =>
                      \E k \in 1..Len(map.matched_errors) :
                          /\ map.matched_errors[k].line = expected[i].line_number
                          /\ map.matched_errors[k].expected = expected[i].pattern
           /\ \A pattern \in {expected[i].pattern : i \in 1..Len(expected)}
                               \cup Range(map.unmatched_expected) :
                  Count(map.unmatched_expected, pattern)
                      = Cardinality({i \in 1..Len(expected) :
                                        /\ expected[i].pattern = pattern
                                        /\ expected[i].line_number \notin LinesOf(actual)})
           /\ \A message \in {actual[i].message : i \in 1..Len(actual)}
                               \cup Range(map.unexpected_errors) :
                  Count(map.unexpected_errors, message)
                      = Cardinality({i \in 1..Len(actual) :
                                        /\ actual[i].message = message
                                        /\ actual[i].line_number \notin LinesOf(expected)})

\* C18: line 1 has the expected patterns bad thing and bad, line 2 has bad,
\* there is no parse error, and unmatched_expected is bad, bad
C18_ExpectedPatternLost ==
    /\ call_out # None
    /\ call_out[1].negative_test_info.is_negative_test
    /\ call_out[1].error_patterns.parse_errors = <<>>
    /\ Len(call_out[1].error_patterns.expected_patterns) = 3
    /\ call_out[1].error_patterns.expected_patterns[1].pattern = "bad thing"
    /\ call_out[1].negative_test_info.expected_vs_actual_errors.unmatched_expected
          = <<"bad", "bad">>

\* the kinds of diagnostic in the order of their rules, other_error last
DiagnosticKinds ==
    <<"syntax_error", "openmp_clause_error", "directive_constraint_error",
      "reference_error", "declaration_error", "semantic_error", "other_error">>

\* the rule of each kind, of a lower-cased message; other_error has none
KindRule(kind, m) ==
    CASE kind = "syntax_error" ->
             Contains("expected", m) /\ (Contains("(", m) \/ Contains(")", m))
      [] kind = "openmp_clause_error" -> Contains("openmp", m) /\ Contains("clause", m)
      [] kind = "directive_constraint_error" ->
             Contains("directive", m) /\ Contains("cannot contain", m)
      [] kind = "reference_error" -> Contains("does not refer to a value", m)
      [] kind = "declaration_error" ->
             Contains("undeclared", m) \/ Contains("not declared", m)
      [] kind = "semantic_error" -> Contains("semantic", m) \/ Contains("type", m)
      [] kind = "other_error" -> TRUE

\* C19: _classify_diagnostic_type returns one of the seven kinds for every
\* message: the kind of the first rule, in the order of the rules, that the
\* lower-cased message satisfies, and other_error when it satisfies none.
C19_KindOfFirstRule ==
    call_out # None =>
        LET holds == [k \in 1..Len(DiagnosticKinds) |->
                         KindRule(DiagnosticKinds[k], Lower(call_in[1].message))]
        IN /\ call_out[1] \in Range(DiagnosticKinds)
           /\ \A k \in 1..Len(DiagnosticKinds) :
                  (holds[k] /\ \A j \in 1..(k - 1) : ~holds[j])
                      => call_out[1] = DiagnosticKinds[k]

\* C19: a message with expected, a parenthesis, openmp and clause is a
\* syntax_error
C19_SyntaxBeforeClause ==
    /\ call_in = Some([message |-> "Expected '(' in OpenMP clause"])
    /\ call_out = Some("syntax_error")

\* the nodes of a tree, and those outside every subtree whose root fails
RECURSIVE NodesOf(_)
NodesOf(node) ==
    {node} \cup UNION {NodesOf(node.children[i]) : i \in 1..Len(node.children)}

RECURSIVE NodesKept(_)
NodesKept(node) ==
    IF node.fail # "none" THEN {}
    ELSE {node} \cup UNION {NodesKept(node.children[i]) : i \in 1..Len(node.children)}

\* C20, as stated: when the inspection of a node fails, the record has no
\* node summary and no declaration for that node or for a node below it, it
\* has the summary and the declaration of every node outside these subtrees,
\* and there is a record whenever the file can be processed.
C20_FailingSubtreeDropped ==
    \A i \in 1..Len(recs) :
        /\ CanProcess(file) => recs[i] # None
        /\ (recs[i] # None /\ parser.mode = "ok") =>
               LET kept == NodesKept(parser.tree)
                   dropped == NodesOf(parser.tree) \ kept
                   summaries == Rec(i).ast_nodes
               IN /\ \A n \in dropped : \A k \in 1..Len(summaries) :
                         summaries[k].location # LocationOf(n)
                  /\ \A n \in kept : \E k \in 1..Len(summaries) :
                         /\ summaries[k].location = LocationOf(n)
                         /\ summaries[k].spelling = n.spelling
                  /\ Len(summaries) = Cardinality(kept)
                  /\ Len(Rec(i).function_declarations)
                        = Cardinality({n \in kept : n.kind = "FUNCTION_DECL"})
                  /\ Len(Rec(i).variable_declarations)
                        = Cardinality({n \in kept : n.kind = "VAR_DECL"})

\* C20: reading the semantic parent of the variable v fails; the record has
\* the node summary of v, no declaration of v and nothing of the node below v
C20_FailingNodeSummarised ==
    /\ parser.mode = "ok"
    /\ parser.tree = SampleTrees[3]
    /\ recs # <<>>
    /\ recs[1] # None
    /\ \E k \in 1..Len(Rec(1).ast_nodes) :
          /\ Rec(1).ast_nodes[k].spelling = "v"
          /\ Rec(1).ast_nodes[k].location = "2:5"
    /\ \A k \in 1..Len(Rec(1).ast_nodes) : Rec(1).ast_nodes[k].location # "2:9"
    /\ Rec(1).variable_declarations = <<>>

\* DepthSpec: the depth of the node of a spelling, the root being at depth 0
DepthOf(spelling) == call_in[1].depth + 1 - StrToInt(spelling)

\* DepthSpec: the calls of _traverse_ast that have not returned, the one
\* that a step makes and ends being counted
ActiveCalls == Len(call_out[1].stack)

\* C21, as stated: no node deeper than the limit of 100 is inspected or
\* summarised: every node summary, every declaration and every parameter of
\* a declared function is that of a node at depth 100 or less, and no more
\* than 102 calls of the traversal are ever active.
C21_NothingBelowTheLimitInspected ==
    LET patterns == call_out[1].patterns
    IN /\ ActiveCalls <= DepthLimit + 2
       /\ \A k \in 1..Len(patterns.ast_nodes) :
             DepthOf(patterns.ast_nodes[k].spelling) <= DepthLimit
       /\ \A k \in 1..Len(patterns.function_declarations) :
             LET f == patterns.function_declarations[k]
             IN /\ DepthOf(f.name) <= DepthLimit
                /\ \A j \in 1..Len(f.parameters) :
                      DepthOf(f.parameters[j].name) <= DepthLimit
       /\ \A k \in 1..Len(patterns.variable_declarations) :
             DepthOf(patterns.variable_declarations[k].name) <= DepthLimit

\* C21, amended: no more than 102 calls of the traversal are ever active;
\* when the traversal has ended the nodes summarised are those at depth 100
\* or less, each once, and every declaration is that of such a node; below
\* depth 100 only the children of a function declaration at depth 100 are
\* read, for its parameters.
C21_NothingBelowTheLimitSummarised ==
    LET patterns == call_out[1].patterns
        tree == call_in[1]
        chain == Min({DepthLimit, tree.depth}) + 1
    IN /\ ActiveCalls <= DepthLimit + 2
       /\ \A k \in 1..Len(patterns.ast_nodes) :
             DepthOf(patterns.ast_nodes[k].spelling) <= DepthLimit
       /\ call_out[1].stack = <<>> =>
             /\ \A d \in 0..(chain - 1) : DepthOf(patterns.ast_nodes[d + 1].spelling) = d
             /\ Len(patterns.ast_nodes)
                   = chain + (IF tree.depth + 1 <= DepthLimit THEN tree.children ELSE 0)
       /\ \A k \in 1..Len(patterns.function_declarations) :
             LET f == patterns.function_declarations[k]
             IN /\ DepthOf(f.name) <= DepthLimit
                /\ \A j \in 1..Len(f.parameters) :
                      DepthOf(f.parameters[j].name) = DepthOf(f.name) + 1
       /\ \A k \in 1..Len(patterns.variable_declarations) :
             DepthOf(patterns.variable_declarations[k].name) <= DepthLimit

\* C21: the traversal of a tree that goes deeper than the limit has ended;
\* a function is declared at depth 100, its parameter at depth 101 is in the
\* result, and there is no summary of that parameter
C21_ParameterReadAtDepth101 ==
    /\ call_in # None
    /\ call_in[1].depth = DepthLimit
    /\ call_out[1].stack = <<>>
    /\ Len(call_out[1].patterns.ast_nodes) = DepthLimit + 1
    /\ \E k \in 1..Len(call_out[1].patterns.function_declarations) :
          LET f == call_out[1].patterns.function_declarations[k]
          IN /\ DepthOf(f.name) = DepthLimit
             /\ f.parameters # <<>>
             /\ DepthOf(f.parameters[1].name) = DepthLimit + 1

\* TraverseSpec: the paths of the node summaries, in the order of the list
SummaryPaths == [k \in 1..Len(call_out[1].ast_nodes) |-> call_out[1].ast_nodes[k].spelling]

\* the node of path a lies above the node of path b
IsAbove(a, b) == Len(a) < Len(b) /\ SubSeq(b, 1, Len(a)) = a

\* the node of path a lies in the subtree of a child that its parent reports
\* before the child in whose subtree the node of path b lies
InEarlierSubtree(a, b) ==
    \E p \in 1..Min({Len(a), Len(b)}) :
        /\ SubSeq(a, 1, p - 1) = SubSeq(b, 1, p - 1)
        /\ StrToInt(Ch(a, p)) < StrToInt(Ch(b, p))

\* C24: every node of the tree is summarised once; the summary of a node
\* comes before those of the nodes below it, and the summaries of the
\* subtree of a child come before those of the subtrees of the children
\* reported after it.
C24_SummariesInPreOrder ==
    call_out # None =>
        /\ Len(SummaryPaths) = Cardinality(NodesOf(call_in[1].tree))
        /\ \A n \in NodesOf(call_in[1].tree) :
              \E k \in 1..Len(SummaryPaths) : SummaryPaths[k] = n.spelling
        /\ \A k, l \in 1..Len(SummaryPaths) :
              (IsAbove(SummaryPaths[k], SummaryPaths[l])
                  \/ InEarlierSubtree(SummaryPaths[k], SummaryPaths[l])) => k < l

\* C24: the root has two children and the first of them has a child; the
\* summaries are those of the root, the first child, its child, the second
\* child
C24_GrandchildBeforeSecondChild ==
    /\ call_out # None
    /\ SummaryPaths = <<"", "0", "00", "1">>

\* the row of test_patterns for a file path, where there is one
RowsOfPath(path) ==
    SelectSeq(db.test_patterns, LAMBDA row : row.file_path = path)

\* the number of rows of a child table that belong to a row of test_patterns
ChildCount(rows, pattern_id) ==
    Cardinality({i \in 1..Len(rows) : rows[i].pattern_id = pattern_id})

\* the database holds the record: its row and as many child rows as it has items
Holds(pattern) ==
    /\ Len(RowsOfPath(pattern.file_path)) = 1
    /\ LET row == RowsOfPath(pattern.file_path)[1]
       IN /\ row.created_timestamp = pattern.created_timestamp
          /\ row.file_name = pattern.file_name
          /\ row.complexity_score = pattern.complexity_score
          /\ ChildCount(db.openmp_directives, row.id) = Len(pattern.openmp_directives)
          /\ ChildCount(db.parse_errors, row.id) = Len(pattern.parse_errors)
          /\ ChildCount(db.expected_error_patterns, row.id)
                = Len(pattern.expected_error_patterns)
          /\ ChildCount(db.ast_nodes, row.id) = Len(pattern.ast_nodes)

\* C22: at every moment of a run, interrupted or not, the database holds the
\* record of every earlier file for which store_pattern returned True; when
\* a file is started no transaction is open.
C22_StoredRecordsRemain ==
    /\ \A k \in 1..Len(trace) :
          trace[k].outcome = "stored" => Holds(trace[k].pattern[1])
    /\ pc = "loop" => call_out = None
    /\ Len(db.test_patterns) = successful_count

\* C22: the run was interrupted while store_pattern was executing for the
\* second file; the record of the first file is in the database and nothing
\* of the second is
C22_InterruptedWhileStoring ==
    /\ pc = "interrupted"
    /\ call_in # None
    /\ idx = 1
    /\ trace[1].outcome = "stored"
    /\ Holds(trace[1].pattern[1])
    /\ RowsOfPath(call_in[1].file_path) = <<>>

\* StoreSpec: the records store_pattern has committed, in the order of the
\* calls, and the latest of them for each file path
Committed == SelectSeq(trace, LAMBDA entry : entry.outcome = "stored")

LatestRecords ==
    {Committed[k].pattern[1] : k \in {i \in 1..Len(Committed) :
        \A j \in (i + 1)..Len(Committed) : Committed[j].file # Committed[i].file}}

\* how many directives of the name, or diagnostics of the kind, the latest
\* records have together
RECURSIVE SumOver(_, _, _)
SumOver(records, field, value) ==
    IF records = {} THEN 0
    ELSE LET record == CHOOSE r \in records : TRUE
             items == IF field = "name" THEN record.openmp_directives
                      ELSE record.parse_errors
         IN Cardinality({i \in 1..Len(items) : items[i][field] = value})
            + SumOver(records \ {record}, field, value)

NamesIn(records, field) ==
    UNION {LET items == IF field = "name" THEN r.openmp_directives ELSE r.parse_errors
           IN {items[i][field] : i \in 1..Len(items)} : r \in records}

\* the dict gives every value of the field in the records its count
IsFrequencyTable(table, records, field) ==
    /\ DOMAIN table = NamesIn(records, field)
    /\ \A value \in DOMAIN table : table[value] = SumOver(records, field, value)

\* C23, as stated: whatever was stored, and how often, the directive and
\* diagnostic tables of get_statistics give every directive name and every
\* diagnostic kind its count in the latest records of the file paths.
C23_TablesCountLatestRecords ==
    call_out # None =>
        /\ IsFrequencyTable(call_out[1].top_directives, LatestRecords, "name")
        /\ IsFrequencyTable(call_out[1].error_types, LatestRecords, "error_type")

\* C23: the record of one file was stored twice; the file has one parallel
\* directive and the table counts two
C23_DirectiveCountedTwice ==
    /\ call_out # None
    /\ Len(Committed) = 2
    /\ Committed[1].file = Committed[2].file
    /\ Cardinality(LatestRecords) = 1
    /\ SumOver(LatestRecords, "name", "parallel") = 1
    /\ call_out[1].top_directives["parallel"] = 2

\* the ids of the rows of test_patterns
PatternIds == {db.test_patterns[i].id : i \in 1..Len(db.test_patterns)}

\* the rows of the four child tables together
ChildTableRows ==
    db.openmp_directives \o db.parse_errors \o db.expected_error_patterns \o db.ast_nodes

\* C28, as stated: whatever was stored, and how often, every row of the four
\* child tables belongs to a row that test_patterns has.
C28_ChildRowsHaveTheirPattern ==
    \A i \in 1..Len(ChildTableRows) : ChildTableRows[i].pattern_id \in PatternIds

\* C28: the record of one file was stored twice; the rows the first call
\* made for its directive and its nodes are there, the row of test_patterns
\* they belonged to is not
C28_RowsOfReplacedRecordLeft ==
    /\ Len(Committed) = 2
    /\ Committed[1].file = Committed[2].file
    /\ PatternIds = {2}
    /\ \E i \in 1..Len(db.openmp_directives) : db.openmp_directives[i].pattern_id = 1
    /\ \E i \in 1..Len(db.ast_nodes) : db.ast_nodes[i].pattern_id = 1

\* the file paths with a committed record
CommittedPaths == {Committed[k].file : k \in 1..Len(Committed)}

\* C29: test_patterns has one row for each file path with a committed
\* record and no other row; the row has the data of the latest record
\* committed for the path; get_statistics counts these paths.
C29_OneRowPerPathWithLatestData ==
    /\ Len(db.test_patterns) = Cardinality(CommittedPaths)
    /\ \A record \in LatestRecords :
          /\ Len(RowsOfPath(record.file_path)) = 1
          /\ LET row == RowsOfPath(record.file_path)[1]
             IN /\ row.pattern_data = JsonDumps(ToDict(record), PatternDictType)
                /\ row.created_timestamp = record.created_timestamp
                /\ row.error_count = Len(record.parse_errors)
                /\ row.file_name = record.file_name
    /\ call_out # None => call_out[1].total_patterns = Cardinality(CommittedPaths)

\* C29: two different records of one file were stored; there is one row,
\* with the data of the second record, and get_statistics counts one
C29_SecondRecordReplacesFirst ==
    /\ Len(trace) = 2
    /\ trace[1].file = trace[2].file
    /\ trace[1].outcome = "stored" /\ trace[2].outcome = "stored"
    /\ Len(trace[1].pattern[1].parse_errors) # Len(trace[2].pattern[1].parse_errors)
    /\ Len(db.test_patterns) = 1
    /\ db.test_patterns[1].created_timestamp = trace[2].pattern[1].created_timestamp
    /\ db.test_patterns[1].error_count = Len(trace[2].pattern[1].parse_errors)
    /\ call_out # None
    /\ call_out[1].total_patterns = 1

\* NegativeSpec and TriggerSpec: the lines of the text, the expected-error
\* texts found in it, and the expected patterns made of them
TextLines == SplitLines(call_in[1].content)
ExpectedTexts == ExtractExpectedErrors(call_in[1].content)
ExpectedPatterns == call_out[1].error_patterns.expected_patterns

\* the number of expected patterns of a text on a line
PatternsOf(text, line_number) ==
    Cardinality({k \in 1..Len(ExpectedPatterns) :
                    /\ ExpectedPatterns[k].pattern = text
                    /\ ExpectedPatterns[k].line_number = line_number})

\* C25, as stated: for every line and every expected-error text there is one
\* expected pattern, with the number of the line, when the text is found in
\* the line, and none when it is not.
C25_OnePatternPerLineAndText ==
    call_out # None =>
        /\ \A k \in 1..Len(ExpectedPatterns) :
              /\ ExpectedPatterns[k].line_number \in 1..Len(TextLines)
              /\ ExpectedPatterns[k].pattern \in Range(ExpectedTexts)
        /\ \A i \in 1..Len(TextLines), text \in Range(ExpectedTexts) :
              PatternsOf(text, i) = IF Contains(text, TextLines[i]) THEN 1 ELSE 0

\* C25: two lines have the same annotation; each of the lines has two
\* expected patterns of its text
C25_TwoPatternsOnEachLine ==
    /\ call_out # None
    /\ Len(TextLines) = 2
    /\ ExpectedTexts = <<"\"bad\"", "\"bad\"">>
    /\ PatternsOf("\"bad\"", 1) = 2
    /\ PatternsOf("\"bad\"", 2) = 2

\* TriggerSpec: the lines of the text holding each of the five trigger
\* patterns, the letters of the patterns in either case
PragmaLines ==
    {i \in 1..Len(TextLines) : StartsAt(Lower(TextLines[i]), 1, "#pragma omp ")}

QuotedLines(key) ==
    {i \in 1..Len(TextLines) :
        Contains(key, Lower(TextLines[i])) /\ Contains("\"", TextLines[i])}

CommentLines(key) ==
    {i \in 1..Len(TextLines) : Contains(key, Lower(TextLines[i]))}

\* C27, as stated: error_trigger_count is the number of pragma lines plus the
\* numbers of expected-error comments, expected-warning comments, // ERROR:
\* comments and // FIXME: comments of the text, a line counting once for
\* each pattern it holds and every pragma line counting wherever it stands.
C27_EveryTriggerCounted ==
    call_out # None =>
        call_out[1].negative_test_info.error_trigger_count
            = Cardinality(PragmaLines)
              + Cardinality(QuotedLines("expected-error"))
              + Cardinality(QuotedLines("expected-warning"))
              + Cardinality(CommentLines("// error:"))
              + Cardinality(CommentLines("// fixme:"))

\* C27: the text is one pragma line with no line feed after it, and the count
\* of its triggers is 0
C27_LastPragmaLineNotCounted ==
    /\ call_out # None
    /\ call_in[1].content = "#pragma omp parallel"
    /\ PragmaLines = {1}
    /\ call_out[1].negative_test_info.error_trigger_count = 0

\* NegativeSpec: the correlation map of a negative test, and the number of
\* messages its matched_errors entries list
ErrorMapping == call_out[1].negative_test_info.expected_vs_actual_errors

MatchedMessages ==
    Cardinality({<<k, i>> \in (1..Len(ErrorMapping.matched_errors)) \X (1..MaxDiagnostics) :
                    i <= Len(ErrorMapping.matched_errors[k].actual)})

\* C30, as stated: in every correlation map total_expected is the number of
\* matched_errors entries plus the number of unmatched_expected entries, and
\* total_actual is the number of messages listed under matched_errors plus
\* the number of unexpected_errors.
C30_TotalsAreSumsOfGroups ==
    (call_out # None /\ call_out[1].negative_test_info.is_negative_test) =>
        /\ ErrorMapping.total_expected
              = Len(ErrorMapping.matched_errors) + Len(ErrorMapping.unmatched_expected)
        /\ ErrorMapping.total_actual
              = MatchedMessages + Len(ErrorMapping.unexpected_errors)

\* C30: line 1 has two expected patterns and a parse error, line 2 has one
\* expected pattern; total_expected is 3 with one matched entry and one
\* unmatched, total_actual is 1 with the one message under the matched entry
C30_TotalExpectedAboveGroups ==
    /\ call_out # None
    /\ call_out[1].negative_test_info.is_negative_test
    /\ LinesOf(call_out[1].error_patterns.parse_errors) = {1}
    /\ ErrorMapping.total_expected = 3
    /\ Len(ErrorMapping.matched_errors) = 1
    /\ Len(ErrorMapping.unmatched_expected) = 1
    /\ ErrorMapping.total_actual = 1
    /\ MatchedMessages = 1
    /\ ErrorMapping.unexpected_errors = <<>>

\* RuntimeSpec: the symbols @__kmpc_<ident> and @omp_<ident> found at any
\* place of a check pattern, without the @
SymbolsIn(pattern) ==
    {SubSeq(pattern, j + 1,
            SkipWhile(pattern, j + RuntimePrefixAt(pattern, j), IdentChars) - 1) :
        j \in {j \in 1..Len(pattern) : RuntimePrefixAt(pattern, j) > 0}}

AllRuntimeSymbols ==
    UNION {SymbolsIn(call_in[1].check_patterns[i]) :
              i \in 1..Len(call_in[1].check_patterns)}

\* C26, as stated: runtime_calls holds every runtime symbol found anywhere in
\* any check pattern, each once, and nothing else.
C26_EveryRuntimeSymbolOnce ==
    call_out # None =>
        /\ Range(call_out[1]) = AllRuntimeSymbols
        /\ \A symbol \in AllRuntimeSymbols : Count(call_out[1], symbol) = 1

\* C26: the one check pattern names __kmpc_fork_call and then omp_get_num,
\* and runtime_calls has the first only
C26_SecondSymbolOfPatternLeftOut ==
    /\ call_out # None
    /\ call_in[1].check_patterns = <<"call void @__kmpc_fork_call(i32 @omp_get_num)">>
    /\ AllRuntimeSymbols = {"__kmpc_fork_call", "omp_get_num"}
    /\ call_out[1] = <<"__kmpc_fork_call">>

====
